---- MODULE Spec2Model ----
(***************************************************************************)
(* Model of the autobox-cli Docker adapter (package docker, Client), of    *)
(* the helpers it is built from, and of the commands and packages around.  *)
(*                                                                         *)
(* The specifications of this module:                                      *)
(*   SpecStatus   the two status normalizers applied to raw runtime state  *)
(*   SpecMetrics  GetSimulationMetrics / statsToMetrics on a stats sample  *)
(*   Spec         the lifecycle operations of Client against a runtime     *)
(*   SpecFailures every operation of Client with failing runtime calls     *)
(*   SpecLife     launch to removal of simulations of one configuration    *)
(*   SpecObserve  inspect and list while the runtime changes the state     *)
(*   SpecConvert  the operations that build a Simulation, on any container *)
(*   SpecLoader   the simulation config loader on any config directory     *)
(*   SpecRun      `autobox run` on any command line and config files       *)
(*   SpecList     `autobox list` and filterRunningSimulations              *)
(*   SpecTruncate truncate on short strings and small widths               *)
(*   SpecTerminate `autobox terminate` against launched simulations        *)
(*   SpecConfig   config.Init and config.Get on the package variable cfg   *)
(* Each specification moves only its own variables; the others stay at     *)
(* their idle values.                                                      *)
(***************************************************************************)
EXTENDS Integers, Sequences, FiniteSets, TLC

VARIABLES
    rawState,       \* SpecStatus: the full state block handed to the inspect path
    rawWord,        \* SpecStatus: the bare state word handed to the list path
    inspectStatus,  \* SpecStatus: result of containerStateToStatus, "none" before
    listStatus,     \* SpecStatus: result of containerStateStringToStatus, "none" before
    statsBody,      \* SpecMetrics: what the runtime's stats body holds
    metricsResult,  \* SpecMetrics: outcome of GetSimulationMetrics
    containers,     \* Spec: the runtime's containers, by identifier
    calls,          \* Spec: runtime calls issued by the last operation, in order
    result,         \* Spec: what the last operation returned
    launched,       \* Spec: history, the configuration each existing container was launched with
    rawContainer,   \* SpecConvert: a container as the runtime describes it
    conversion,     \* SpecConvert: the Simulation an operation made of it, none before
    fs,             \* SpecLoader: the simulations and metrics directories under ~/.autobox/config
    loaderResult,   \* SpecLoader: what the last function of the config loader returned
    runWorld,       \* SpecRun: the simulation config files that `autobox run` reads
    runResult,      \* SpecRun: what the last `autobox run` did and returned
    cmdInput,       \* SpecList, SpecTruncate: the input of the function applied
    cmdResult,      \* SpecList, SpecTruncate, SpecTerminate, SpecConvert: what the command returned
    configFile,     \* SpecConfig: the autobox.yaml that viper finds
    cfg,            \* SpecConfig: the package variable cfg of package config
    configResult    \* SpecConfig: what the last call of Init or Get returned

statusVars == <<rawState, rawWord, inspectStatus, listStatus>>
metricsVars == <<statsBody, metricsResult>>
lifeVars == <<containers, calls, result, launched>>
convertVars == <<rawContainer, conversion>>
loaderVars == <<fs, loaderResult>>
runVars == <<runWorld, runResult>>
cmdVars == <<cmdInput, cmdResult>>
configVars == <<configFile, cfg, configResult>>
cliVars == <<loaderVars, runVars, cmdVars, configVars>>
vars == <<rawState, rawWord, inspectStatus, listStatus, statsBody, metricsResult,
          containers, calls, result, launched, rawContainer, conversion,
          fs, loaderResult, runWorld, runResult, cmdInput, cmdResult,
          configFile, cfg, configResult>>

(***************************************************************************)
(* models.SimulationStatus                                                 *)
(***************************************************************************)
StatusPending == "pending"
StatusRunning == "running"
StatusCompleted == "completed"
StatusFailed == "failed"
StatusStopped == "stopped"

(***************************************************************************)
(* Strings are sequences of one-character strings, so that case folding    *)
(* and comparison are computed character by character.                     *)
(***************************************************************************)
UpperLetters == <<"A","B","C","D","E","F","G","H","I","J","K","L","M",
                  "N","O","P","Q","R","S","T","U","V","W","X","Y","Z">>
LowerLetters == <<"a","b","c","d","e","f","g","h","i","j","k","l","m",
                  "n","o","p","q","r","s","t","u","v","w","x","y","z">>

LowerRune(c) ==
    IF \E i \in 1..26 : UpperLetters[i] = c
    THEN LowerLetters[CHOOSE i \in 1..26 : UpperLetters[i] = c]
    ELSE c

UpperRune(c) ==
    IF \E i \in 1..26 : LowerLetters[i] = c
    THEN UpperLetters[CHOOSE i \in 1..26 : LowerLetters[i] = c]
    ELSE c

\* strings.ToLower
ToLower(s) == [i \in 1..Len(s) |-> LowerRune(s[i])]

\* Input generators: the same word in upper case and capitalised.
ToUpper(s) == [i \in 1..Len(s) |-> UpperRune(s[i])]
Title(s) == [i \in 1..Len(s) |-> IF i = 1 THEN UpperRune(s[i]) ELSE s[i]]

WordRunning == <<"r","u","n","n","i","n","g">>
WordExited == <<"e","x","i","t","e","d">>
WordDead == <<"d","e","a","d">>
WordPaused == <<"p","a","u","s","e","d">>
WordCreated == <<"c","r","e","a","t","e","d">>
WordRestarting == <<"r","e","s","t","a","r","t","i","n","g">>
WordRemoving == <<"r","e","m","o","v","i","n","g">>
WordEmpty == <<>>

\* The state words of the container runtime, as it spells them.
RuntimeWords == {WordRunning, WordExited, WordDead, WordPaused, WordCreated,
                 WordRestarting, WordRemoving, WordEmpty}

\* The same words in the three spellings a case-insensitive reader must accept.
AnyCaseWords == RuntimeWords \cup {ToUpper(w) : w \in RuntimeWords}
                             \cup {Title(w) : w \in RuntimeWords}

ExitCodes == {0, 1, 137}

\* Every full state block: four flags, a status word, an exit code.
RawStates == [Running : BOOLEAN, Dead : BOOLEAN, Paused : BOOLEAN,
              Restarting : BOOLEAN,
              Status : {WordExited, Title(WordExited), WordRunning, WordCreated, WordEmpty},
              ExitCode : ExitCodes]

(***************************************************************************)
(* Status normalizers                                                      *)
(***************************************************************************)
\* A normalizer that tests dead before running.
containerStateToStatusDeadFirst(state) ==
    IF state.Dead THEN StatusFailed
    ELSE IF state.Running THEN StatusRunning
    ELSE IF state.Paused THEN StatusStopped
    ELSE IF state.Restarting THEN StatusRunning
    ELSE IF state.Status = WordExited /\ state.ExitCode = 0 THEN StatusCompleted
    ELSE IF state.Status = WordExited /\ state.ExitCode # 0 THEN StatusFailed
    ELSE StatusPending

containerStateToStatus(state) ==
    IF state.Running THEN StatusRunning
    ELSE IF state.Dead THEN StatusFailed
    ELSE IF state.Paused THEN StatusStopped
    ELSE IF state.Restarting THEN StatusRunning
    ELSE IF state.Status = WordExited /\ state.ExitCode = 0 THEN StatusCompleted
    ELSE IF state.Status = WordExited /\ state.ExitCode # 0 THEN StatusFailed
    ELSE StatusPending

\* A normalizer that compares the word as spelled, without folding its case.
containerStateStringToStatusCaseSensitive(state) ==
    IF state = WordRunning THEN StatusRunning
    ELSE IF state = WordExited THEN StatusCompleted
    ELSE IF state = WordDead THEN StatusFailed
    ELSE IF state = WordPaused THEN StatusStopped
    ELSE StatusPending

\* A normalizer with no case for the exited word.
containerStateStringToStatusNoExited(state) ==
    LET w == ToLower(state) IN
    IF w = WordRunning THEN StatusRunning
    ELSE IF w = WordDead THEN StatusFailed
    ELSE IF w = WordPaused THEN StatusStopped
    ELSE StatusPending

containerStateStringToStatus(state) ==
    LET w == ToLower(state) IN
    IF w = WordRunning THEN StatusRunning
    ELSE IF w = WordExited THEN StatusCompleted
    ELSE IF w = WordDead THEN StatusFailed
    ELSE IF w = WordPaused THEN StatusStopped
    ELSE StatusPending

(***************************************************************************)
(* Telemetry: container.StatsResponse -> models.Metrics                    *)
(*                                                                         *)
(* The counters are unsigned machine words.  The model keeps the wrap of   *)
(* unsigned subtraction with a word of WordBits bits in place of 64.       *)
(* float64 values are exact fractions [num, den] in lowest terms: the      *)
(* conversions and the three operations used round monotonically, so the   *)
(* sign of a value and its order against 0 and 100 are those of the exact  *)
(* fraction.                                                               *)
(***************************************************************************)
WordBits == 10
Modulus == 2 ^ WordBits
MaxU64 == Modulus - 1

\* cur - prev on unsigned words
USub(a, b) == (a - b + Modulus) % Modulus

Abs(n) == IF n < 0 THEN -n ELSE n

RECURSIVE GCD(_, _)
GCD(a, b) == IF b = 0 THEN a ELSE GCD(b, a % b)

\* The fraction n/d, d > 0, in lowest terms.
Frac(n, d) ==
    LET g == GCD(Abs(n), d) IN [num |-> n \div g, den |-> d \div g]

FZero == Frac(0, 1)
FDiv(n, d) == Frac(n, d)
FMul(f, k) == Frac(f.num * k, f.den)
FLeq(f, k) == f.num <= k * f.den
FGt(f, k) == f.num > k * f.den

MaxCores == 2       \* at most this many per-core usage entries
MaxBlkio == 2       \* at most this many block-I/O service-bytes entries

CpuCounters == {0, 50, 200, MaxU64}
MemCounters == {0, 50, 200, 512}

Eth0Absent == [present |-> FALSE, RxBytes |-> 0, TxBytes |-> 0,
               RxPackets |-> 0, TxPackets |-> 0]
Eth0Present == [present |-> TRUE, RxBytes |-> 11, TxBytes |-> 12,
                RxPackets |-> 3, TxPackets |-> 4]

\* The service-bytes entries of a sample with n of them.
BlkioEntries(n) == [i \in 1..n |-> 20 + i]

\* Every decoded sample of the model.
StatsSamples ==
    [PreTotal : CpuCounters, CurTotal : CpuCounters,
     PreSystem : CpuCounters, CurSystem : CpuCounters,
     NCores : 0..MaxCores,
     MemUsage : MemCounters, MemLimit : MemCounters,
     Eth0 : {Eth0Absent, Eth0Present},
     Blkio : {BlkioEntries(n) : n \in 0..MaxBlkio}]

\* The zero value of container.StatsResponse: what Decode leaves untouched.
ZeroStats ==
    [PreTotal |-> 0, CurTotal |-> 0, PreSystem |-> 0, CurSystem |-> 0,
     NCores |-> 0, MemUsage |-> 0, MemLimit |-> 0,
     Eth0 |-> Eth0Absent, Blkio |-> <<>>]

\* The stats body: no bytes at all, bytes that are not JSON, or one document.
StatsBodies ==
    {[kind |-> "eof", stats |-> ZeroStats], [kind |-> "garbage", stats |-> ZeroStats]}
    \cup {[kind |-> "json", stats |-> s] : s \in StatsSamples}

\* CPU percentage guarded by the current total instead of the previous one.
cpuPercentOfCurGuard(stats) ==
    IF stats.CurTotal > 0
    THEN LET cpuDelta == USub(stats.CurTotal, stats.PreTotal)
             systemDelta == USub(stats.CurSystem, stats.PreSystem)
         IN  IF systemDelta > 0 /\ cpuDelta > 0
             THEN FMul(FMul(FDiv(cpuDelta, systemDelta), stats.NCores), 100)
             ELSE FZero
    ELSE FZero

cpuPercentOf(stats) ==
    IF stats.PreTotal > 0
    THEN LET cpuDelta == USub(stats.CurTotal, stats.PreTotal)
             systemDelta == USub(stats.CurSystem, stats.PreSystem)
         IN  IF systemDelta > 0 /\ cpuDelta > 0
             THEN FMul(FMul(FDiv(cpuDelta, systemDelta), stats.NCores), 100)
             ELSE FZero
    ELSE FZero

\* Memory ratio left as a fraction of one, not scaled to a percentage.
memoryPercentOfUnscaled(stats) ==
    IF stats.MemLimit > 0
    THEN FDiv(stats.MemUsage, stats.MemLimit)
    ELSE FZero

\* Memory percentage with usage and limit exchanged.
memoryPercentOfSwapped(stats) ==
    IF stats.MemLimit > 0 /\ stats.MemUsage > 0
    THEN FMul(FDiv(stats.MemLimit, stats.MemUsage), 100)
    ELSE FZero

memoryPercentOf(stats) ==
    IF stats.MemLimit > 0
    THEN FMul(FDiv(stats.MemUsage, stats.MemLimit), 100)
    ELSE FZero

\* A map read of a missing key gives the zero value of the entry.
NetworkIOOf(stats) ==
    [BytesReceived |-> stats.Eth0.RxBytes,
     BytesTransmitted |-> stats.Eth0.TxBytes,
     PacketsReceived |-> stats.Eth0.RxPackets,
     PacketsTransmitted |-> stats.Eth0.TxPackets]

\* Indexing a slice beyond its length panics.
DiskIOPanics(stats) == Len(stats.Blkio) < 2

DiskIOOf(stats) ==
    [BytesRead |-> stats.Blkio[1], BytesWritten |-> stats.Blkio[2]]

Panic == [kind |-> "panic"]
Failure(msg) == [kind |-> "error", err |-> msg]

statsToMetrics(stats) ==
    IF DiskIOPanics(stats)
    THEN Panic
    ELSE [kind |-> "ok",
          metrics |-> [CPUUsage |-> cpuPercentOf(stats),
                       MemoryUsage |-> memoryPercentOf(stats),
                       NetworkIO |-> NetworkIOOf(stats),
                       DiskIO |-> DiskIOOf(stats)]]

\* json.NewDecoder(body).Decode(&containerStats)
DecodeStats(body) ==
    CASE body.kind = "eof" -> [err |-> "EOF", stats |-> ZeroStats]
      [] body.kind = "garbage" -> [err |-> "syntax", stats |-> ZeroStats]
      [] OTHER -> [err |-> "nil", stats |-> body.stats]

\* GetSimulationMetrics as a function of the stats call's failure and its body.
GetSimulationMetricsRun(callFails, body) ==
    IF callFails
    THEN Failure("failed to get container stats")
    ELSE LET d == DecodeStats(body) IN
         IF d.err # "nil" /\ d.err # "EOF"
         THEN Failure("failed to decode stats")
         ELSE statsToMetrics(d.stats)

NoResult == [kind |-> "none"]

\* The stats call is not needed again once it has failed or returned.
GetSimulationMetrics ==
    /\ metricsResult = NoResult
    /\ \E callFails \in BOOLEAN :
          metricsResult' = GetSimulationMetricsRun(callFails, statsBody)
    /\ UNCHANGED <<statsBody, statusVars, lifeVars, convertVars, cliVars>>

(***************************************************************************)
(* The container runtime, as the Client sees it through its control API.   *)
(* A container is "absent" before the runtime has created it and "removed" *)
(* after its removal; identifiers are never reused.                        *)
(***************************************************************************)
MaxContainers == 2

AutoboxLabelPrefix == "com.autobox"
LabelSimulation == AutoboxLabelPrefix \o ".simulation"
LabelName == AutoboxLabelPrefix \o ".name"
LabelConfigPath == AutoboxLabelPrefix \o ".config_path"
LabelCreatedAt == AutoboxLabelPrefix \o ".created_at"

ShortIDLen == 12
StopGraceSeconds == 30
ForceStopGraceSeconds == 10

Digits == <<"1", "2", "3", "4", "5", "6", "7", "8", "9">>

\* The identifier the runtime gives its i-th container: longer than the short form.
RuntimeID(i) == [k \in 1..(ShortIDLen + 2) |->
                    IF k = 1 THEN Digits[i] ELSE IF k > ShortIDLen THEN "f" ELSE "0"]
ContainerIDs == {RuntimeID(i) : i \in 1..MaxContainers}

Absent == [kind |-> "absent"]
Removed == [kind |-> "removed"]

\* Timestamps as the runtime prints them; a container that never started or
\* never finished carries the zero time.
ZeroTime == "0001-01-01T00:00:00Z"
StartTime == "2024-05-01T10:00:00.5Z"
FinishTime == "2024-05-01T10:05:00.5Z"
\* A timestamp with whole seconds, and one in a layout that is not RFC 3339.
WholeSecondTime == "2024-05-01T10:05:00Z"
SpacedTime == "2024-05-01 10:05:00"
Now == "now"
\* time.Now() as an instant, and the nil *time.Time
NowInstant == [clock |-> "now"]
Unset == [unset |-> TRUE]

StateCreated ==
    [Running |-> FALSE, Paused |-> FALSE, Restarting |-> FALSE, Dead |-> FALSE,
     Status |-> WordCreated, ExitCode |-> 0,
     StartedAt |-> ZeroTime, FinishedAt |-> ZeroTime]
StateRunning ==
    [Running |-> TRUE, Paused |-> FALSE, Restarting |-> FALSE, Dead |-> FALSE,
     Status |-> WordRunning, ExitCode |-> 0,
     StartedAt |-> StartTime, FinishedAt |-> ZeroTime]
StatePaused ==
    [Running |-> TRUE, Paused |-> TRUE, Restarting |-> FALSE, Dead |-> FALSE,
     Status |-> WordPaused, ExitCode |-> 0,
     StartedAt |-> StartTime, FinishedAt |-> ZeroTime]
StateExited(code) ==
    [Running |-> FALSE, Paused |-> FALSE, Restarting |-> FALSE, Dead |-> FALSE,
     Status |-> WordExited, ExitCode |-> code,
     StartedAt |-> StartTime, FinishedAt |-> FinishTime]

Exists(rt, id) == id \in DOMAIN rt /\ rt[id].kind = "container"

\* The nil error
Nil == [nil |-> TRUE]
RtErr(call, why) == [call |-> call, why |-> why]
\* fmt.Errorf("<msg>: %w", err)
Wrap(msg, cause) == [msg |-> msg, cause |-> cause]

\* ContainerCreate: a new container under a fresh identifier, not started.
RtCreate(rt, id, labels, fails) ==
    IF fails
    THEN [rt |-> rt, err |-> RtErr("create", "unavailable"), ID |-> <<>>]
    ELSE [rt |-> [rt EXCEPT ![id] = [kind |-> "container", ID |-> id,
                                     Labels |-> labels, State |-> StateCreated]],
          err |-> Nil, ID |-> id]

\* ContainerStart
RtStart(rt, id, fails) ==
    IF fails THEN [rt |-> rt, err |-> RtErr("start", "unavailable")]
    ELSE IF ~Exists(rt, id) THEN [rt |-> rt, err |-> RtErr("start", "notfound")]
    ELSE [rt |-> [rt EXCEPT ![id].State = StateRunning], err |-> Nil]

\* ContainerStop: a running container exits with code; one that is not running
\* is left as it is and the call succeeds.
RtStop(rt, id, fails, code) ==
    IF fails THEN [rt |-> rt, err |-> RtErr("stop", "unavailable")]
    ELSE IF ~Exists(rt, id) THEN [rt |-> rt, err |-> RtErr("stop", "notfound")]
    ELSE IF rt[id].State.Running
    THEN [rt |-> [rt EXCEPT ![id].State = StateExited(code)], err |-> Nil]
    ELSE [rt |-> rt, err |-> Nil]

\* ContainerRemove: a running container is removed only when forced.
RtRemove(rt, id, force, fails) ==
    IF fails THEN [rt |-> rt, err |-> RtErr("remove", "unavailable")]
    ELSE IF ~Exists(rt, id) THEN [rt |-> rt, err |-> RtErr("remove", "notfound")]
    ELSE IF rt[id].State.Running /\ ~force
    THEN [rt |-> rt, err |-> RtErr("remove", "conflict")]
    ELSE [rt |-> [rt EXCEPT ![id] = Removed], err |-> Nil]

\* ContainerInspect
RtInspect(rt, id, fails) ==
    IF fails THEN [err |-> RtErr("inspect", "unavailable"), json |-> Absent]
    ELSE IF ~Exists(rt, id) THEN [err |-> RtErr("inspect", "notfound"), json |-> Absent]
    ELSE [err |-> Nil, json |-> rt[id]]

\* One entry of ContainerList: the identifier, the labels and the bare state word.
ListItem(c) == [ID |-> c.ID, Labels |-> c.Labels, State |-> c.State.Status]

\* ContainerList with a label filter key=value: the running containers that
\* carry the label with that value, and with All set the others as well.
RtList(rt, all, key, value, fails) ==
    IF fails THEN [err |-> RtErr("list", "unavailable"), items |-> {}]
    ELSE [err |-> Nil,
          items |-> {ListItem(rt[id]) : id \in
                       {i \in DOMAIN rt : /\ Exists(rt, i)
                                          /\ all \/ rt[i].State.Running
                                          /\ key \in DOMAIN rt[i].Labels
                                          /\ rt[i].Labels[key] = value}}]

\* ContainerStats: the body of one sample
RtStats(rt, id, fails) ==
    IF fails THEN [err |-> RtErr("stats", "unavailable")]
    ELSE IF ~Exists(rt, id) THEN [err |-> RtErr("stats", "notfound")]
    ELSE [err |-> Nil]

\* ContainerLogs: a reader of the container's output
RtLogs(rt, id, fails) ==
    IF fails THEN [err |-> RtErr("logs", "unavailable")]
    ELSE IF ~Exists(rt, id) THEN [err |-> RtErr("logs", "notfound")]
    ELSE [err |-> Nil]

(***************************************************************************)
(* Client operations.  Each <Operation>Run gives, from the runtime state   *)
(* and the outcome of every runtime call, the new runtime state, the calls *)
(* issued in order, and the value returned to the caller.                  *)
(***************************************************************************)
ConfigNames == {"demo", "batch"}
ConfigPaths == {"/app/configs/simulation.json"}
\* models.SimulationConfig, with the fields the Client reads
Configs == [Name : ConfigNames, ConfigPath : ConfigPaths]

\* time.Parse of a timestamp the runtime printed
\* The instants that the RFC 3339 timestamps of the model denote: the date,
\* the second of the day and the nanosecond.
Instant(date, sec, nsec) == [date |-> date, sec |-> sec, nsec |-> nsec]
ParsedTimes ==
    (ZeroTime :> Instant(<<1, 1, 1>>, 0, 0))
    @@ (StartTime :> Instant(<<2024, 5, 1>>, 36000, 500000000))
    @@ (FinishTime :> Instant(<<2024, 5, 1>>, 36300, 500000000))
    @@ (WholeSecondTime :> Instant(<<2024, 5, 1>>, 36300, 0))
ParseTime(s) ==
    IF s \in DOMAIN ParsedTimes
    THEN [err |-> Nil, t |-> ParsedTimes[s]]
    ELSE [err |-> [parse |-> s], t |-> Unset]

\* s[:n]
Prefix(s, n) == SubSeq(s, 1, n)
\* s[:n] panics when s has fewer than n characters
SlicePanics(s, n) == Len(s) < n

TimeField(s) ==
    IF s # "" /\ ParseTime(s).err = Nil THEN ParseTime(s).t ELSE Unset

NameLabel(labels) ==
    IF LabelName \in DOMAIN labels THEN labels[LabelName] ELSE ""

\* A conversion that takes a container that once started for a running one.
containerToSimulationOnceStarted(container) ==
    IF SlicePanics(container.ID, ShortIDLen)
    THEN Panic
    ELSE [ID |-> Prefix(container.ID, ShortIDLen),
          ContainerID |-> container.ID,
          Status |-> IF container.State.StartedAt = StartTime
                     THEN StatusRunning
                     ELSE containerStateToStatus(container.State),
          StartedAt |-> TimeField(container.State.StartedAt),
          FinishedAt |-> TimeField(container.State.FinishedAt),
          Name |-> NameLabel(container.Labels)]

\* A conversion that reads the finish time only when the start time is set.
containerToSimulationNestedFinish(container) ==
    IF SlicePanics(container.ID, ShortIDLen)
    THEN Panic
    ELSE [ID |-> Prefix(container.ID, ShortIDLen),
          ContainerID |-> container.ID,
          Status |-> containerStateToStatus(container.State),
          StartedAt |-> TimeField(container.State.StartedAt),
          FinishedAt |-> IF TimeField(container.State.StartedAt) = Unset
                         THEN Unset
                         ELSE TimeField(container.State.FinishedAt),
          Name |-> NameLabel(container.Labels)]

containerToSimulation(container) ==
    IF SlicePanics(container.ID, ShortIDLen)
    THEN Panic
    ELSE [ID |-> Prefix(container.ID, ShortIDLen),
          ContainerID |-> container.ID,
          Status |-> containerStateToStatus(container.State),
          StartedAt |-> TimeField(container.State.StartedAt),
          FinishedAt |-> TimeField(container.State.FinishedAt),
          Name |-> NameLabel(container.Labels)]

containerListItemToSimulation(container) ==
    IF SlicePanics(container.ID, ShortIDLen)
    THEN Panic
    ELSE [ID |-> Prefix(container.ID, ShortIDLen),
          ContainerID |-> container.ID,
          Status |-> containerStateStringToStatus(container.State),
          StartedAt |-> Unset,
          FinishedAt |-> Unset,
          Name |-> NameLabel(container.Labels)]

\* A launch result whose short identifier is the whole container identifier.
LaunchedSimulationFullID(containerID, config) ==
    [ID |-> containerID,
     Name |-> config.ConfigPath,
     ContainerID |-> containerID,
     Status |-> StatusRunning,
     StartedAt |-> NowInstant,
     FinishedAt |-> Unset,
     Config |-> config]

\* The Simulation that LaunchSimulation builds once the container has started.
LaunchedSimulation(containerID, config) ==
    IF SlicePanics(containerID, ShortIDLen)
    THEN Panic
    ELSE [ID |-> Prefix(containerID, ShortIDLen),
          Name |-> config.ConfigPath,
          ContainerID |-> containerID,
          Status |-> StatusRunning,
          StartedAt |-> NowInstant,
          FinishedAt |-> Unset,
          Config |-> config]

\* Labels whose name label holds the configuration path.
LaunchLabelsNamedByPath(config) ==
    (LabelSimulation :> "true") @@ (LabelName :> config.ConfigPath)
    @@ (LabelConfigPath :> config.ConfigPath) @@ (LabelCreatedAt :> Now)

LaunchLabels(config) ==
    (LabelSimulation :> "true") @@ (LabelName :> config.Name)
    @@ (LabelConfigPath :> config.ConfigPath) @@ (LabelCreatedAt :> Now)

\* A launch that removes the container it created when the start fails.
LaunchSimulationRunRollsBack(rt, config, newID, createFails, startFails) ==
    LET c == RtCreate(rt, newID, LaunchLabels(config), createFails)
        createCall == [op |-> "create", id |-> c.ID, err |-> c.err]
    IN  IF c.err # Nil
        THEN [rt |-> c.rt, calls |-> <<createCall>>,
              err |-> Wrap("failed to create container", c.err), sim |-> Absent]
        ELSE LET st == RtStart(c.rt, c.ID, startFails)
                 startCall == [op |-> "start", id |-> c.ID, err |-> st.err]
                 rm == RtRemove(st.rt, c.ID, TRUE, FALSE)
                 removeCall == [op |-> "remove", id |-> c.ID, force |-> TRUE,
                                volumes |-> TRUE, err |-> rm.err]
             IN  IF st.err # Nil
                 THEN [rt |-> rm.rt, calls |-> <<createCall, startCall, removeCall>>,
                       err |-> Wrap("failed to start container", st.err),
                       sim |-> Absent]
                 ELSE [rt |-> st.rt, calls |-> <<createCall, startCall>>,
                       err |-> Nil,
                       sim |-> LaunchedSimulation(c.ID, config)]

LaunchSimulationRun(rt, config, newID, createFails, startFails) ==
    LET c == RtCreate(rt, newID, LaunchLabels(config), createFails)
        createCall == [op |-> "create", id |-> c.ID, err |-> c.err]
    IN  IF c.err # Nil
        THEN [rt |-> c.rt, calls |-> <<createCall>>,
              err |-> Wrap("failed to create container", c.err), sim |-> Absent]
        ELSE LET st == RtStart(c.rt, c.ID, startFails)
                 startCall == [op |-> "start", id |-> c.ID, err |-> st.err]
             IN  IF st.err # Nil
                 THEN [rt |-> st.rt, calls |-> <<createCall, startCall>>,
                       err |-> Wrap("failed to start container", st.err),
                       sim |-> Absent]
                 ELSE [rt |-> st.rt, calls |-> <<createCall, startCall>>,
                       err |-> Nil,
                       sim |-> LaunchedSimulation(c.ID, config)]

GetSimulationStatusRun(rt, simulationID, inspectFails) ==
    LET r == RtInspect(rt, simulationID, inspectFails)
        call == [op |-> "inspect", id |-> simulationID, err |-> r.err]
    IN  IF r.err # Nil
        THEN [rt |-> rt, calls |-> <<call>>,
              err |-> Wrap("failed to inspect container", r.err), sim |-> Absent]
        ELSE [rt |-> rt, calls |-> <<call>>, err |-> Nil,
              sim |-> containerToSimulation(r.json)]

\* A listing that asks the runtime for running containers only.
ListSimulationsRunRunningOnly(rt, listFails) ==
    LET r == RtList(rt, FALSE, LabelSimulation, "true", listFails)
        call == [op |-> "list", id |-> <<>>, err |-> r.err]
    IN  IF r.err # Nil
        THEN [rt |-> rt, calls |-> <<call>>,
              err |-> Wrap("failed to list containers", r.err), sims |-> {}]
        ELSE [rt |-> rt, calls |-> <<call>>, err |-> Nil,
              sims |-> {containerListItemToSimulation(it) : it \in r.items}]

ListSimulationsRun(rt, listFails) ==
    LET r == RtList(rt, TRUE, LabelSimulation, "true", listFails)
        call == [op |-> "list", id |-> <<>>, err |-> r.err]
    IN  IF r.err # Nil
        THEN [rt |-> rt, calls |-> <<call>>,
              err |-> Wrap("failed to list containers", r.err), sims |-> {}]
        ELSE [rt |-> rt, calls |-> <<call>>, err |-> Nil,
              sims |-> {containerListItemToSimulation(it) : it \in r.items}]

\* A stop after which the runtime discards the stopped container.
StopSimulationRunDiscards(rt, simulationID, stopFails, code) ==
    LET r == RtStop(rt, simulationID, stopFails, code)
        call == [op |-> "stop", id |-> simulationID,
                 timeout |-> StopGraceSeconds, err |-> r.err]
    IN  [rt |-> IF r.err = Nil THEN RtRemove(r.rt, simulationID, TRUE, FALSE).rt ELSE r.rt,
         calls |-> <<call>>,
         err |-> IF r.err # Nil THEN Wrap("failed to stop container", r.err) ELSE Nil]

\* A stop that is issued a second time when the first attempt fails.
StopSimulationRunRetries(rt, simulationID, stopFails, code) ==
    LET r == RtStop(rt, simulationID, stopFails, code)
        again == RtStop(rt, simulationID, FALSE, code)
        call == [op |-> "stop", id |-> simulationID,
                 timeout |-> StopGraceSeconds, err |-> r.err]
        retry == [op |-> "stop", id |-> simulationID,
                  timeout |-> StopGraceSeconds, err |-> again.err]
    IN  IF r.err = Nil
        THEN [rt |-> r.rt, calls |-> <<call>>, err |-> Nil]
        ELSE [rt |-> again.rt, calls |-> <<call, retry>>,
              err |-> IF again.err # Nil
                      THEN Wrap("failed to stop container", again.err) ELSE Nil]

StopSimulationRun(rt, simulationID, stopFails, code) ==
    LET r == RtStop(rt, simulationID, stopFails, code)
        call == [op |-> "stop", id |-> simulationID,
                 timeout |-> StopGraceSeconds, err |-> r.err]
    IN  [rt |-> r.rt, calls |-> <<call>>,
         err |-> IF r.err # Nil THEN Wrap("failed to stop container", r.err) ELSE Nil]

\* A remove that stops the container first whether or not it is forced.
RemoveSimulationRunStopsAlways(rt, simulationID, force, stopFails, code, removeFails) ==
    LET s == RtStop(rt, simulationID, stopFails, 137)
        stopCalls == <<[op |-> "stop", id |-> simulationID,
                        timeout |-> ForceStopGraceSeconds, err |-> s.err]>>
        r == RtRemove(s.rt, simulationID, force, removeFails)
        removeCall == [op |-> "remove", id |-> simulationID, force |-> force,
                       volumes |-> TRUE, err |-> r.err]
    IN  [rt |-> r.rt, calls |-> stopCalls \o <<removeCall>>,
         err |-> IF r.err # Nil
                 THEN Wrap("failed to remove container", r.err) ELSE Nil]

\* A forced remove that gives up when its preliminary stop fails.
RemoveSimulationRunStopChecked(rt, simulationID, force, stopFails, code, removeFails) ==
    LET s == IF force THEN RtStop(rt, simulationID, stopFails, code)
                      ELSE [rt |-> rt, err |-> Nil]
        stopCalls == IF force
                     THEN <<[op |-> "stop", id |-> simulationID,
                             timeout |-> ForceStopGraceSeconds, err |-> s.err]>>
                     ELSE <<>>
        r == RtRemove(s.rt, simulationID, force, removeFails)
        removeCall == [op |-> "remove", id |-> simulationID, force |-> force,
                       volumes |-> TRUE, err |-> r.err]
    IN  IF s.err # Nil
        THEN [rt |-> s.rt, calls |-> stopCalls,
              err |-> Wrap("failed to stop container", s.err)]
        ELSE [rt |-> r.rt, calls |-> stopCalls \o <<removeCall>>,
              err |-> IF r.err # Nil
                      THEN Wrap("failed to remove container", r.err) ELSE Nil]

RemoveSimulationRun(rt, simulationID, force, stopFails, code, removeFails) ==
    LET s == IF force THEN RtStop(rt, simulationID, stopFails, code)
                      ELSE [rt |-> rt, err |-> Nil]
        stopCalls == IF force
                     THEN <<[op |-> "stop", id |-> simulationID,
                             timeout |-> ForceStopGraceSeconds, err |-> s.err]>>
                     ELSE <<>>
        r == RtRemove(s.rt, simulationID, force, removeFails)
        removeCall == [op |-> "remove", id |-> simulationID, force |-> force,
                       volumes |-> TRUE, err |-> r.err]
    IN  [rt |-> r.rt, calls |-> stopCalls \o <<removeCall>>,
         err |-> IF r.err # Nil
                 THEN Wrap("failed to remove container", r.err) ELSE Nil]

\* The text of a container's output, as read from the logs reader.
LogText == [kind |-> "logs", text |-> "output"]

GetSimulationLogsRun(rt, simulationID, tail, logsFails, readFails) ==
    LET r == RtLogs(rt, simulationID, logsFails)
        call == [op |-> "logs", id |-> simulationID, tail |-> tail, err |-> r.err]
    IN  IF r.err # Nil
        THEN [rt |-> rt, calls |-> <<call>>,
              err |-> Wrap("failed to get container logs", r.err), logs |-> Absent]
        ELSE IF readFails
        THEN [rt |-> rt, calls |-> <<call>>,
              err |-> Wrap("failed to read logs", [read |-> "failed"]), logs |-> Absent]
        ELSE [rt |-> rt, calls |-> <<call>>, err |-> Nil, logs |-> LogText]

\* GetSimulationMetrics against the runtime: the stats call, then the body.
GetSimulationMetricsOn(rt, simulationID, statsFails, body) ==
    LET st == RtStats(rt, simulationID, statsFails)
        call == [op |-> "stats", id |-> simulationID, err |-> st.err]
        r == GetSimulationMetricsRun(st.err # Nil, body)
    IN  IF r.kind = "error"
        THEN [rt |-> rt, calls |-> <<call>>,
              err |-> Wrap(r.err, IF st.err # Nil THEN st.err ELSE [decode |-> "failed"]),
              metrics |-> Absent]
        ELSE [rt |-> rt, calls |-> <<call>>, err |-> Nil, metrics |-> r]

(***************************************************************************)
(* The config loader (package config, loader.go) and the two directories   *)
(* it reads, ~/.autobox/config/simulations and ~/.autobox/config/metrics   *)
(***************************************************************************)
Json == <<".", "j", "s", "o", "n">>
DemoName == <<"d", "e", "m", "o">>
DashName == <<"m", "y", "-", "s", "i", "m">>
UnderscoreName == <<"m", "y", "_", "s", "i", "m">>
NotesFile == <<"n", "o", "t", "e", "s", ".", "t", "x", "t">>

\* The file names a directory can hold, in the order os.ReadDir returns them
\* (sorted by name, '-' before '_').
FileUniverse == <<DemoName \o Json, DashName \o Json, UnderscoreName \o Json, NotesFile>>
NoFiles == [i \in 1..Len(FileUniverse) |-> "none"]

\* A directory path: nothing there, an empty directory that the user may
\* not search or read, or a directory whose entries are regular files and
\* subdirectories.
DirMissing == [kind |-> "missing", entries |-> NoFiles]
DirNoAccess == [kind |-> "noaccess", entries |-> NoFiles]
\* The entries of a directory: any of the files, and in place of the first
\* possibly a subdirectory of that name.
DirectoryEntries ==
    LET files == [1..Len(FileUniverse) -> {"none", "file"}]
    IN  files \cup {[e EXCEPT ![1] = "dir"] : e \in files}
Directories ==
    {DirMissing, DirNoAccess}
    \cup {[kind |-> "dir", entries |-> e] : e \in DirectoryEntries}
FileSystems == [sim : Directories, met : Directories]

HasSuffix(s, suffix) ==
    /\ Len(s) >= Len(suffix)
    /\ SubSeq(s, Len(s) - Len(suffix) + 1, Len(s)) = suffix
\* strings.TrimSuffix
TrimSuffix(s, suffix) ==
    IF HasSuffix(s, suffix) THEN SubSeq(s, 1, Len(s) - Len(suffix)) ELSE s
\* strings.ReplaceAll of one character by another
ReplaceAll(s, old, new) == [i \in 1..Len(s) |-> IF s[i] = old THEN new ELSE s[i]]

\* os.Stat of dir/fileName: the errno, "ok" when there is an entry
Stat(dir, fileName) ==
    IF dir.kind = "missing" THEN "ENOENT"
    ELSE IF dir.kind = "noaccess" THEN "EACCES"
    ELSE IF \E i \in 1..Len(FileUniverse) :
               FileUniverse[i] = fileName /\ dir.entries[i] # "none"
    THEN "ok"
    ELSE "ENOENT"
\* os.ReadFile of dir/fileName
ReadFile(dir, fileName) ==
    IF Stat(dir, fileName) # "ok" THEN Stat(dir, fileName)
    ELSE IF \E i \in 1..Len(FileUniverse) :
               FileUniverse[i] = fileName /\ dir.entries[i] = "dir"
    THEN "EISDIR"
    ELSE "ok"
\* os.IsNotExist: true of ENOENT alone
IsNotExist(errno) == errno = "ENOENT"
\* os.ReadDir: the entries sorted by file name
ReadDir(dir) ==
    IF dir.kind = "missing" THEN [err |-> "ENOENT", files |-> <<>>]
    ELSE IF dir.kind = "noaccess" THEN [err |-> "EACCES", files |-> <<>>]
    ELSE LET present == SelectSeq([i \in 1..Len(FileUniverse) |-> i],
                                  LAMBDA i : dir.entries[i] # "none")
         IN  [err |-> "ok",
              files |-> [k \in 1..Len(present) |->
                           [Name |-> FileUniverse[present[k]],
                            IsDir |-> dir.entries[present[k]] = "dir"]]]

\* The file name that validation and loading look for
FileNameOf(simulationName) ==
    LET fileName == ToLower(ReplaceAll(simulationName, "-", "_"))
    IN  IF HasSuffix(fileName, Json) THEN fileName ELSE fileName \o Json

ValidateSimulationConfig(files, homeFails, simulationName) ==
    LET fileName == FileNameOf(simulationName)
    IN  IF homeFails
        THEN [err |-> Failure("failed to get home directory"), fileName |-> <<>>]
        ELSE IF IsNotExist(Stat(files.sim, fileName))
        THEN [err |-> Failure("simulation config not found"), fileName |-> fileName]
        ELSE IF IsNotExist(Stat(files.met, fileName))
        THEN [err |-> Failure("metrics config not found"), fileName |-> fileName]
        ELSE [err |-> Nil, fileName |-> fileName]

\* A collection that does not look at the metrics directory.
AvailableInSimulationsOnly(simFiles, metricsFiles) ==
    LET kept == SelectSeq(simFiles,
                          LAMBDA f : ~f.IsDir /\ HasSuffix(f.Name, Json))
    IN  [k \in 1..Len(kept) |-> TrimSuffix(kept[k].Name, Json)]

\* The names ListAvailableSimulations collects from the two listings
AvailableIn(simFiles, metricsFiles) ==
    LET metricsMap == {metricsFiles[k].Name : k \in
                         {k \in 1..Len(metricsFiles) :
                             /\ ~metricsFiles[k].IsDir
                             /\ HasSuffix(metricsFiles[k].Name, Json)}}
        kept == SelectSeq(simFiles,
                          LAMBDA f : /\ ~f.IsDir
                                     /\ HasSuffix(f.Name, Json)
                                     /\ f.Name \in metricsMap)
    IN  [k \in 1..Len(kept) |-> TrimSuffix(kept[k].Name, Json)]

ListAvailableSimulations(files, homeFails) ==
    LET simFiles == ReadDir(files.sim)
        metricsFiles == ReadDir(files.met)
    IN  IF homeFails
        THEN [err |-> Failure("failed to get home directory"), names |-> <<>>]
        ELSE IF simFiles.err # "ok"
        THEN IF IsNotExist(simFiles.err)
             THEN [err |-> Nil, names |-> <<>>]
             ELSE [err |-> Failure("failed to read simulations directory"),
                   names |-> <<>>]
        ELSE IF metricsFiles.err # "ok"
        THEN IF IsNotExist(metricsFiles.err)
             THEN [err |-> Nil, names |-> <<>>]
             ELSE [err |-> Failure("failed to read metrics directory"), names |-> <<>>]
        ELSE [err |-> Nil, names |-> AvailableIn(simFiles.files, metricsFiles.files)]

\* LoadSimulationConfig, with files that hold well-formed JSON and no server
\* config: the name and the two paths of the config set it returns.
LoadSimulationConfig(files, homeFails, simulationName) ==
    LET fileName == FileNameOf(simulationName)
        none == [Name |-> <<>>, SimulationFile |-> <<>>, MetricsFile |-> <<>>]
    IN  IF homeFails
        THEN [err |-> Failure("failed to get home directory"), configSet |-> none]
        ELSE IF ReadFile(files.sim, fileName) # "ok"
        THEN [err |-> IF IsNotExist(ReadFile(files.sim, fileName))
                      THEN Failure("simulation config not found")
                      ELSE Failure("failed to read simulation config"),
              configSet |-> none]
        ELSE IF ReadFile(files.met, fileName) # "ok"
        THEN [err |-> IF IsNotExist(ReadFile(files.met, fileName))
                      THEN Failure("metrics config not found for simulation")
                      ELSE Failure("failed to read metrics config"),
              configSet |-> none]
        ELSE [err |-> Nil,
              configSet |-> [Name |-> simulationName, SimulationFile |-> fileName,
                             MetricsFile |-> fileName]]

(***************************************************************************)
(* `autobox run` (cmd/run.go, runSimulation): where the simulation name    *)
(* that is launched comes from                                             *)
(***************************************************************************)
\* Names: the "name" field of a configuration file, the one of the default
\* file that run writes, a --name flag, and the name made from the process id.
GiftName == <<"G", "i", "f", "t">>
HostedName == <<"H", "o", "s", "t">>
DefaultSimulationName ==
    <<"d", "e", "f", "a", "u", "l", "t", "-", "s", "i", "m", "u", "l", "a", "t", "i", "o", "n">>
FlagName == <<"p", "r", "o", "d">>
PidName == <<"s", "i", "m", "u", "l", "a", "t", "i", "o", "n", "-", "4", "2">>

\* What a file holds: nothing there, bytes that are not JSON, or a JSON
\* object whose "name" is absent, a number, or a string.
FileMissing == [kind |-> "missing", nameKind |-> "absent", name |-> <<>>]
FileNotJson == [kind |-> "text", nameKind |-> "absent", name |-> <<>>]
JsonUnnamed == [kind |-> "json", nameKind |-> "absent", name |-> <<>>]
JsonNumberName == [kind |-> "json", nameKind |-> "number", name |-> <<>>]
JsonNamed(name) == [kind |-> "json", nameKind |-> "string", name |-> name]

\* Paths: the directory prefix and the rest.
ContainerConfigDir == "/app/config/"
HomeConfigDir == "~/.autobox/config/"
Path(dir, rest) == [dir |-> dir, rest |-> rest]
DefaultConfigPath == Path(ContainerConfigDir, "simulation.json")
DefaultMetricsPath == Path(ContainerConfigDir, "metrics.json")
MountedConfigPath == Path(ContainerConfigDir, "custom.json")
HostConfigPath == Path("./", "custom.json")
GivenMetricsPath == Path("./", "metrics.json")
NoPath == Path("", "")
\* The file on the host that run reads the name from
LocalConfigPath(configPath) ==
    IF configPath.dir = ContainerConfigDir
    THEN Path(HomeConfigDir, configPath.rest)
    ELSE configPath
LocalPaths == {LocalConfigPath(DefaultConfigPath), LocalConfigPath(MountedConfigPath),
               HostConfigPath}

\* The command line of a run, and the outcome of each step that can fail
RunInputs ==
    [args : {<<>>, <<DemoName>>},
     runConfig : {NoPath, MountedConfigPath, HostConfigPath},
     runMetricsPath : {NoPath, GivenMetricsPath},
     runName : {<<>>, FlagName},
     runDetach : BOOLEAN,
     ensureFails : BOOLEAN, writeFails : BOOLEAN, createFails : BOOLEAN]

\* runSimulation without --list: the files after it, the runtime after it,
\* the runtime calls, the error, the configuration launched and the file the
\* name was looked up in.
RunSimulationRun(world, files, rt, newID, in) ==
    LET failed(msg, w) ==
            [world |-> w, rt |-> rt, calls |-> <<>>, err |-> Failure(msg),
             config |-> [Name |-> <<>>, ConfigPath |-> NoPath], used |-> FileMissing,
             containerID |-> <<>>]
        positional ==
            Len(in.args) > 0 /\ in.runConfig = NoPath /\ in.runMetricsPath = NoPath
        valid == ValidateSimulationConfig(files, FALSE, in.args[1])
        loadedSet == LoadSimulationConfig(files, FALSE, in.args[1])
        configPath == IF positional
                      THEN Path("/app/config/simulations/", loadedSet.configSet.SimulationFile)
                      ELSE IF in.runConfig # NoPath THEN in.runConfig
                      ELSE DefaultConfigPath
        writesConfig == /\ ~positional
                        /\ in.runConfig = NoPath
                        /\ world.files[LocalConfigPath(DefaultConfigPath)].kind = "missing"
        afterConfig == IF writesConfig /\ ~in.writeFails
                       THEN [world EXCEPT !.files[LocalConfigPath(DefaultConfigPath)] =
                                              JsonNamed(DefaultSimulationName)]
                       ELSE world
        writesMetrics == /\ ~positional
                         /\ in.runMetricsPath = NoPath
                         /\ ~afterConfig.metricsDefault
        afterMetrics == IF writesMetrics /\ ~in.writeFails
                        THEN [afterConfig EXCEPT !.metricsDefault = TRUE]
                        ELSE afterConfig
        localFile == IF positional THEN world.simulation
                     ELSE afterMetrics.files[LocalConfigPath(configPath)]
        fromFile == IF /\ ~positional
                       /\ localFile.kind = "json"
                       /\ localFile.nameKind = "string"
                    THEN localFile.name
                    ELSE <<>>
        simName == IF positional THEN in.args[1] ELSE fromFile
        finalName == IF in.runName # <<>> THEN in.runName
                     ELSE IF simName = <<>> THEN PidName
                     ELSE simName
        config == [Name |-> finalName, ConfigPath |-> configPath]
        launch == LaunchSimulationRun(rt, config, newID, in.createFails, FALSE)
        logs == GetSimulationLogsRun(launch.rt, newID, 100, FALSE, FALSE)
    IN  IF in.ensureFails
        THEN failed("failed to create config directories", world)
        ELSE IF positional /\ valid.err # Nil
        THEN failed("simulation validation failed", world)
        ELSE IF positional /\ loadedSet.err # Nil
        THEN failed("failed to load simulation", world)
        ELSE IF writesConfig /\ in.writeFails
        THEN failed("failed to create default simulation config", world)
        ELSE IF writesMetrics /\ in.writeFails
        THEN failed("failed to create default metrics config", afterConfig)
        ELSE [world |-> afterMetrics, rt |-> launch.rt,
              calls |-> IF launch.err = Nil /\ ~in.runDetach
                        THEN launch.calls \o logs.calls ELSE launch.calls,
              err |-> IF launch.err # Nil
                      THEN Wrap("failed to run simulation", launch.err) ELSE Nil,
              config |-> config, used |-> localFile,
              containerID |-> IF launch.err = Nil THEN newID ELSE <<>>]

(***************************************************************************)
(* `autobox list` (cmd list, runList and filterRunningSimulations)         *)
(***************************************************************************)
RECURSIVE filterRunningReversedFrom(_, _, _)
filterRunningReversedFrom(simulations, i, running) ==
    IF i > Len(simulations) THEN running
    ELSE filterRunningReversedFrom(simulations, i + 1,
             IF simulations[i].Status = StatusRunning
             THEN <<simulations[i]>> \o running
             ELSE running)
filterRunningSimulationsReversed(simulations) ==
    filterRunningReversedFrom(simulations, 1, <<>>)

\* The loop of filterRunningSimulations from entry i on, with the slice
\* appended to so far
RECURSIVE filterRunningFrom(_, _, _)
filterRunningFrom(simulations, i, running) ==
    IF i > Len(simulations) THEN running
    ELSE filterRunningFrom(simulations, i + 1,
             IF simulations[i].Status = StatusRunning
             THEN Append(running, simulations[i])
             ELSE running)
filterRunningSimulations(simulations) == filterRunningFrom(simulations, 1, <<>>)

\* runList on what ListSimulations returns: the error and the simulations
\* handed to the output function
RunListRun(simulations, listAll, listFails) ==
    IF listFails
    THEN [err |-> Wrap("failed to list simulations", RtErr("list", "unavailable")), shown |-> <<>>]
    ELSE [err |-> Nil,
          shown |-> IF ~listAll THEN filterRunningSimulations(simulations)
                    ELSE simulations]

(***************************************************************************)
(* Package config: Init and Get on the package variable cfg                *)
(***************************************************************************)
\* autobox.yaml: not there, not YAML, or YAML in which output.format is a
\* string and output.verbose and output.color are absent, booleans, or words
\* that are no booleans.
ConfigFileMissing == [kind |-> "missing"]
ConfigFileMalformed == [kind |-> "malformed"]
KeyUnset == "unset"
NotABool == "maybe"
ConfigFiles ==
    {ConfigFileMissing, ConfigFileMalformed}
    \cup [kind : {"yaml"}, format : {KeyUnset, "json"},
          verbose : {KeyUnset, "true", NotABool},
          color : {KeyUnset, "false", NotABool}]

\* viper's settings after setDefaults and ReadInConfig: the defaults, each
\* overridden by the key of the file
Settings(file) ==
    [format |-> IF file.kind = "yaml" /\ file.format # KeyUnset
                THEN file.format ELSE "table",
     verbose |-> IF file.kind = "yaml" /\ file.verbose # KeyUnset
                 THEN file.verbose ELSE "false",
     color |-> IF file.kind = "yaml" /\ file.color # KeyUnset
               THEN file.color ELSE "true"]
ParsesAsBool(word) == word \in {"true", "false"}

\* viper.Unmarshal into a zero Config: every key that decodes is stored, a
\* key that does not is left at the zero value and makes the error.
Unmarshal(settings) ==
    [err |-> IF ParsesAsBool(settings.verbose) /\ ParsesAsBool(settings.color)
             THEN Nil ELSE Failure("cannot parse as bool"),
     config |-> [Format |-> settings.format,
                 Verbose |-> settings.verbose = "true",
                 Color |-> settings.color = "true"]]

\* The nil pointer
NilConfig == [kind |-> "nil"]
\* The Config that cfg points to, with the Init call that made it
Pointer(config, init) == [kind |-> "config", config |-> config, init |-> init]

\* Init: the error and the value of cfg after it
ConfigInit(file, cfgBefore, homeFails) ==
    LET decoded == Unmarshal(Settings(file))
    IN  IF homeFails
        THEN [err |-> Wrap("failed to get home directory", Failure("$HOME is not defined")),
              cfg |-> cfgBefore]
        ELSE IF file.kind = "malformed"
        THEN [err |-> Wrap("failed to read config file", Failure("yaml")),
              cfg |-> cfgBefore]
        ELSE IF decoded.err # Nil
        THEN [err |-> Wrap("failed to unmarshal config", decoded.err),
              cfg |-> Pointer(decoded.config, "failed")]
        ELSE [err |-> Nil, cfg |-> Pointer(decoded.config, "ok")]

\* Get: the pointer returned, or the panic, and the value of cfg after it
ConfigGet(file, cfgBefore, homeFails) ==
    LET i == ConfigInit(file, cfgBefore, homeFails)
    IN  IF cfgBefore = NilConfig /\ i.err # Nil
        THEN [out |-> Panic, cfg |-> i.cfg]
        ELSE IF cfgBefore = NilConfig THEN [out |-> i.cfg, cfg |-> i.cfg]
        ELSE [out |-> cfgBefore, cfg |-> cfgBefore]

(***************************************************************************)
(* `autobox status` (cmd/status.go): the table of one simulation           *)
(***************************************************************************)
\* outputStatusTable: the lines printed, or the panic of simulation.ContainerID[:12]
\* on a short identifier or of *simulation.StartedAt on a nil pointer
outputStatusTable(simulation) ==
    IF SlicePanics(simulation.ContainerID, ShortIDLen) THEN Panic
    ELSE IF simulation.FinishedAt # Unset /\ simulation.StartedAt = Unset THEN Panic
    ELSE [kind |-> "table",
          started |-> simulation.StartedAt # Unset,
          finished |-> simulation.FinishedAt # Unset,
          duration |-> simulation.FinishedAt # Unset,
          runningFor |-> simulation.FinishedAt = Unset /\ simulation.StartedAt # Unset]

(***************************************************************************)
(* `autobox terminate` (cmd/terminate.go, runTerminate)                    *)
(***************************************************************************)
\* The listed simulations' container ids as the slice the loop ranges over
ListedIDs(sims) ==
    SelectSeq([i \in 1..MaxContainers |-> RuntimeID(i)],
              LAMBDA id : \E sim \in sims : sim # Panic /\ sim.ContainerID = id)

Responses == {"y", "Y", "n"}
Confirms(response) == ~(response # "y" /\ response # "Y")

\* The loop of terminate --all from entry i on: one forced RemoveSimulation
\* for the entry, counted as terminated or failed.
RECURSIVE TerminateEachFrom(_, _, _, _, _)
TerminateEachFrom(ids, i, outcome, code, st) ==
    IF i > Len(ids) THEN st
    ELSE LET r == RemoveSimulationRun(st.rt, ids[i], TRUE, outcome[ids[i]].stopFails,
                                      code, outcome[ids[i]].removeFails)
         IN  TerminateEachFrom(ids, i + 1, outcome, code,
                 [rt |-> r.rt, calls |-> st.calls \o r.calls,
                  terminated |-> IF r.err = Nil THEN st.terminated + 1 ELSE st.terminated,
                  failed |-> IF r.err # Nil THEN st.failed + 1 ELSE st.failed])

\* A loop over the listed simulations that ends at the first failure.
RECURSIVE TerminateUntilFailureFrom(_, _, _, _, _)
TerminateUntilFailureFrom(ids, i, outcome, code, st) ==
    IF i > Len(ids) \/ st.failed > 0 THEN st
    ELSE LET r == RemoveSimulationRun(st.rt, ids[i], TRUE, outcome[ids[i]].stopFails,
                                      code, outcome[ids[i]].removeFails)
         IN  TerminateUntilFailureFrom(ids, i + 1, outcome, code,
                 [rt |-> r.rt, calls |-> st.calls \o r.calls,
                  terminated |-> IF r.err = Nil THEN st.terminated + 1 ELSE st.terminated,
                  failed |-> IF r.err # Nil THEN st.failed + 1 ELSE st.failed])

\* A terminate --all that gives up at the first simulation it fails to remove.
TerminateAllRunUntilFailure(rt, terminateForce, response, listFails, outcome, code) ==
    LET l == ListSimulationsRun(rt, listFails)
        ids == ListedIDs(l.sims)
        start == [rt |-> l.rt, calls |-> l.calls, terminated |-> 0, failed |-> 0]
        end == TerminateUntilFailureFrom(ids, 1, outcome, code, start)
        stopped(err, why) ==
            [rt |-> l.rt, calls |-> l.calls, err |-> err, listed |-> ids,
             terminated |-> 0, failed |-> 0, ended |-> why]
    IN  IF l.err # Nil THEN stopped(Wrap("failed to list simulations", l.err), "error")
        ELSE IF Len(ids) = 0 THEN stopped(Nil, "none")
        ELSE IF ~terminateForce /\ ~Confirms(response) THEN stopped(Nil, "aborted")
        ELSE [rt |-> end.rt, calls |-> end.calls,
              err |-> IF end.failed > 0
                      THEN Failure("simulation(s) failed to be terminated") ELSE Nil,
              listed |-> ids, terminated |-> end.terminated, failed |-> end.failed,
              ended |-> "summary"]

\* runTerminate with --all
TerminateAllRun(rt, terminateForce, response, listFails, outcome, code) ==
    LET l == ListSimulationsRun(rt, listFails)
        ids == ListedIDs(l.sims)
        start == [rt |-> l.rt, calls |-> l.calls, terminated |-> 0, failed |-> 0]
        end == TerminateEachFrom(ids, 1, outcome, code, start)
        stopped(err, why) ==
            [rt |-> l.rt, calls |-> l.calls, err |-> err, listed |-> ids,
             terminated |-> 0, failed |-> 0, ended |-> why]
    IN  IF l.err # Nil THEN stopped(Wrap("failed to list simulations", l.err), "error")
        ELSE IF Len(ids) = 0 THEN stopped(Nil, "none")
        ELSE IF ~terminateForce /\ ~Confirms(response) THEN stopped(Nil, "aborted")
        ELSE [rt |-> end.rt, calls |-> end.calls,
              err |-> IF end.failed > 0
                      THEN Failure("simulation(s) failed to be terminated") ELSE Nil,
              listed |-> ids, terminated |-> end.terminated, failed |-> end.failed,
              ended |-> "summary"]

\* runTerminate of one simulation
TerminateOneRun(rt, simulationID, terminateForce, response, inspectFails, stopFails, code, removeFails) ==
    LET q == IF terminateForce THEN [rt |-> rt, calls |-> <<>>]
             ELSE GetSimulationStatusRun(rt, simulationID, inspectFails)
        r == RemoveSimulationRun(q.rt, simulationID, TRUE, stopFails, code, removeFails)
    IN  IF ~terminateForce /\ ~Confirms(response)
        THEN [rt |-> q.rt, calls |-> q.calls, err |-> Nil, listed |-> <<simulationID>>,
              terminated |-> 0, failed |-> 0, ended |-> "aborted"]
        ELSE [rt |-> r.rt, calls |-> q.calls \o r.calls,
              err |-> IF r.err # Nil
                      THEN Wrap("failed to terminate simulation", r.err) ELSE Nil,
              listed |-> <<simulationID>>,
              terminated |-> IF r.err = Nil THEN 1 ELSE 0,
              failed |-> IF r.err # Nil THEN 1 ELSE 0, ended |-> "one"]

(***************************************************************************)
(* truncate (cmd/output.go)                                                *)
(***************************************************************************)
Ellipsis == <<".", ".", ".">>
\* A string value, as opposed to a panic
Str(text) == [kind |-> "string", text |-> text]
\* s[:n] of a string: a panic when n is negative or beyond the string
SliceTo(s, n) == IF n < 0 \/ n > Len(s) THEN Panic ELSE Str(SubSeq(s, 1, n))
truncate(s, max) ==
    IF Len(s) <= max THEN Str(s)
    ELSE IF SliceTo(s, max - 3) = Panic THEN Panic
    ELSE Str(SliceTo(s, max - 3).text \o Ellipsis)

(***************************************************************************)
(* Idle values and initial states                                          *)
(***************************************************************************)
NoStatus == "none"
NoContainers == [id \in ContainerIDs |-> Absent]
NotLaunched == [kind |-> "notlaunched"]
NoOperation ==
    [op |-> "none", id |-> <<>>, force |-> FALSE, err |-> Nil,
     sim |-> Absent, sims |-> {}]
Returned(op, id, force, err, sim, sims) ==
    [op |-> op, id |-> id, force |-> force, err |-> err, sim |-> sim, sims |-> sims]

StatusIdle ==
    /\ rawState = StateCreated
    /\ rawWord = WordEmpty
    /\ inspectStatus = NoStatus
    /\ listStatus = NoStatus

MetricsIdle ==
    /\ statsBody = [kind |-> "eof", stats |-> ZeroStats]
    /\ metricsResult = NoResult

LifeIdle ==
    /\ containers = NoContainers
    /\ calls = <<>>
    /\ result = NoOperation
    /\ launched = [id \in ContainerIDs |-> NotLaunched]

NoConversion == [by |-> "none", err |-> Nil, sim |-> Absent]
ConvertIdle ==
    /\ rawContainer = [kind |-> "container", ID |-> RuntimeID(1),
                       Labels |-> (LabelSimulation :> "true"), State |-> StateCreated]
    /\ conversion = NoConversion

NoConfigSet == [Name |-> <<>>, SimulationFile |-> <<>>, MetricsFile |-> <<>>]
NoLoaderResult ==
    [fn |-> "none", name |-> <<>>, err |-> Nil, fileName |-> <<>>, names |-> <<>>,
     configSet |-> NoConfigSet]
LoaderIdle ==
    /\ fs = [sim |-> DirMissing, met |-> DirMissing]
    /\ loaderResult = NoLoaderResult
NoWorld == [kind |-> "none"]
NoRun == [op |-> "none"]
RunIdle ==
    /\ runWorld = NoWorld
    /\ runResult = NoRun
NoInput == [kind |-> "none"]
NoCommand == [cmd |-> "none"]
CmdIdle ==
    /\ cmdInput = NoInput
    /\ cmdResult = NoCommand
NoCall == [fn |-> "none"]
ConfigIdle ==
    /\ configFile = ConfigFileMissing
    /\ cfg = NilConfig
    /\ configResult = NoCall
CliIdle ==
    /\ LoaderIdle
    /\ RunIdle
    /\ CmdIdle
    /\ ConfigIdle

(***************************************************************************)
(* SpecStatus: the normalizers applied to any state block and any word     *)
(***************************************************************************)
InitStatus ==
    /\ rawState \in RawStates
    /\ rawWord \in AnyCaseWords
    /\ inspectStatus = NoStatus
    /\ listStatus = NoStatus
    /\ MetricsIdle
    /\ LifeIdle
    /\ ConvertIdle
    /\ CliIdle

\* containerToSimulation's use of the normalizer on an inspected state block
NormalizeState ==
    /\ inspectStatus = NoStatus
    /\ inspectStatus' = containerStateToStatus(rawState)
    /\ UNCHANGED <<rawState, rawWord, listStatus, metricsVars, lifeVars, convertVars, cliVars>>

\* containerListItemToSimulation's use of the normalizer on a listed state word
NormalizeWord ==
    /\ listStatus = NoStatus
    /\ listStatus' = containerStateStringToStatus(rawWord)
    /\ UNCHANGED <<rawState, rawWord, inspectStatus, metricsVars, lifeVars, convertVars, cliVars>>

NextStatus == NormalizeState \/ NormalizeWord

SpecStatus == InitStatus /\ [][NextStatus]_vars

(***************************************************************************)
(* SpecMetrics: one metrics call on any stats body                         *)
(***************************************************************************)
InitMetrics ==
    /\ statsBody \in StatsBodies
    /\ metricsResult = NoResult
    /\ StatusIdle
    /\ LifeIdle
    /\ ConvertIdle
    /\ CliIdle

NextMetrics == GetSimulationMetrics

SpecMetrics == InitMetrics /\ [][NextMetrics]_vars

(***************************************************************************)
(* Spec: the lifecycle operations against the runtime                      *)
(***************************************************************************)
Init ==
    /\ StatusIdle
    /\ MetricsIdle
    /\ LifeIdle
    /\ ConvertIdle
    /\ CliIdle

\* Exit codes of a process that ends by itself, and of one that is stopped.
OwnExitCodes == {0, 1}
StopExitCodes == {0, 137}

\* The outcomes of a runtime call are drawn only where the operation makes
\* the call: a call that is never made has no outcome.
FailsIf(made) == IF made THEN BOOLEAN ELSE {FALSE}
CodesIf(stops) == IF stops THEN StopExitCodes ELSE {0}
Stops(id, stopFails) ==
    /\ ~stopFails
    /\ Exists(containers, id)
    /\ containers[id].State.Running

LaunchSimulationOf(configs) ==
    \E config \in configs, newID \in ContainerIDs, createFails \in BOOLEAN :
      \E startFails \in FailsIf(~createFails) :
        /\ containers[newID] = Absent
        /\ LET r == LaunchSimulationRun(containers, config, newID, createFails, startFails)
           IN  /\ containers' = r.rt
               /\ calls' = r.calls
               /\ result' = Returned("LaunchSimulation", <<>>, FALSE, r.err, r.sim, {})
               /\ launched' = IF Exists(r.rt, newID)
                               THEN [launched EXCEPT ![newID] = [config |-> config]]
                               ELSE launched
        /\ UNCHANGED <<statusVars, metricsVars, convertVars, cliVars>>

LaunchSimulation == LaunchSimulationOf(Configs)

GetSimulationStatus ==
    \E simulationID \in ContainerIDs, inspectFails \in BOOLEAN :
        /\ LET r == GetSimulationStatusRun(containers, simulationID, inspectFails)
           IN  /\ containers' = r.rt
               /\ calls' = r.calls
               /\ result' = Returned("GetSimulationStatus", simulationID, FALSE,
                                     r.err, r.sim, {})
        /\ UNCHANGED launched
        /\ UNCHANGED <<statusVars, metricsVars, convertVars, cliVars>>

ListSimulations ==
    \E listFails \in BOOLEAN :
        /\ LET r == ListSimulationsRun(containers, listFails)
           IN  /\ containers' = r.rt
               /\ calls' = r.calls
               /\ result' = Returned("ListSimulations", <<>>, FALSE, r.err, Absent, r.sims)
        /\ UNCHANGED launched
        /\ UNCHANGED <<statusVars, metricsVars, convertVars, cliVars>>

StopSimulation ==
    \E simulationID \in ContainerIDs, stopFails \in BOOLEAN :
      \E code \in CodesIf(Stops(simulationID, stopFails)) :
        /\ LET r == StopSimulationRun(containers, simulationID, stopFails, code)
           IN  /\ containers' = r.rt
               /\ calls' = r.calls
               /\ result' = Returned("StopSimulation", simulationID, FALSE, r.err, Absent, {})
        /\ UNCHANGED launched
        /\ UNCHANGED <<statusVars, metricsVars, convertVars, cliVars>>

RemoveSimulation ==
    \E simulationID \in ContainerIDs, force, removeFails \in BOOLEAN :
      \E stopFails \in FailsIf(force) :
      \E code \in CodesIf(force /\ Stops(simulationID, stopFails)) :
        /\ LET r == RemoveSimulationRun(containers, simulationID, force,
                                        stopFails, code, removeFails)
           IN  /\ containers' = r.rt
               /\ calls' = r.calls
               /\ result' = Returned("RemoveSimulation", simulationID, force,
                                     r.err, Absent, {})
        /\ launched' = [id \in ContainerIDs |->
                            IF Exists(containers', id) THEN launched[id] ELSE NotLaunched]
        /\ UNCHANGED <<statusVars, metricsVars, convertVars, cliVars>>

LogTails == {100}

GetSimulationLogs ==
    \E simulationID \in ContainerIDs, tail \in LogTails, logsFails \in BOOLEAN :
      \E readFails \in FailsIf(~logsFails /\ Exists(containers, simulationID)) :
        /\ LET r == GetSimulationLogsRun(containers, simulationID, tail,
                                         logsFails, readFails)
           IN  /\ containers' = r.rt
               /\ calls' = r.calls
               /\ result' = Returned("GetSimulationLogs", simulationID, FALSE,
                                     r.err, r.logs, {})
        /\ UNCHANGED <<launched, statusVars, metricsVars, convertVars, cliVars>>

\* The stats bodies the runtime answers with in the lifecycle: none, bytes that
\* are not JSON, and one full sample.
FullSample ==
    [PreTotal |-> 50, CurTotal |-> 200, PreSystem |-> 50, CurSystem |-> 200,
     NCores |-> 1, MemUsage |-> 50, MemLimit |-> 200,
     Eth0 |-> Eth0Present, Blkio |-> BlkioEntries(2)]
LifecycleStatsBodies ==
    {[kind |-> "eof", stats |-> ZeroStats], [kind |-> "garbage", stats |-> ZeroStats],
     [kind |-> "json", stats |-> FullSample]}

\* GetSimulationMetrics as one of the operations on the runtime's containers.
GetSimulationMetricsOfContainer ==
    \E simulationID \in ContainerIDs, statsFails \in BOOLEAN,
       body \in LifecycleStatsBodies :
        /\ LET r == GetSimulationMetricsOn(containers, simulationID, statsFails, body)
           IN  /\ containers' = r.rt
               /\ calls' = r.calls
               /\ result' = Returned("GetSimulationMetrics", simulationID, FALSE,
                                     r.err, r.metrics, {})
        /\ UNCHANGED <<launched, statusVars, metricsVars, convertVars, cliVars>>

\* The process of a running container ends by itself.  The value the last
\* operation returned belongs to the caller by then.
RuntimeExit ==
    \E id \in ContainerIDs, code \in OwnExitCodes :
        /\ Exists(containers, id)
        /\ containers[id].State.Running
        /\ ~containers[id].State.Paused
        /\ containers' = [containers EXCEPT ![id].State = StateExited(code)]
        /\ calls' = <<>>
        /\ result' = NoOperation
        /\ UNCHANGED <<launched, statusVars, metricsVars, convertVars, cliVars>>

\* Another client of the runtime pauses a running container, or resumes it.
RuntimePause ==
    \E id \in ContainerIDs :
        /\ Exists(containers, id)
        /\ containers[id].State = StateRunning
        /\ containers' = [containers EXCEPT ![id].State = StatePaused]
        /\ calls' = <<>>
        /\ result' = NoOperation
        /\ UNCHANGED <<launched, statusVars, metricsVars, convertVars, cliVars>>

RuntimeUnpause ==
    \E id \in ContainerIDs :
        /\ Exists(containers, id)
        /\ containers[id].State = StatePaused
        /\ containers' = [containers EXCEPT ![id].State = StateRunning]
        /\ calls' = <<>>
        /\ result' = NoOperation
        /\ UNCHANGED <<launched, statusVars, metricsVars, convertVars, cliVars>>

\* Labels of containers that other clients of the runtime created: the reserved
\* labels without the marker, the marker alone, and a marker that is not "true".
ForeignLabelSets ==
    {(LabelName :> "demo") @@ (LabelConfigPath :> "/app/configs/simulation.json")
        @@ (LabelCreatedAt :> Now),
     (LabelSimulation :> "true"),
     (LabelSimulation :> "false") @@ (LabelName :> "demo")}

\* Another client of the runtime creates a container.
RuntimeForeignCreate ==
    \E id \in ContainerIDs, labels \in ForeignLabelSets :
        /\ containers[id] = Absent
        /\ containers' = RtCreate(containers, id, labels, FALSE).rt
        /\ calls' = <<>>
        /\ result' = NoOperation
        /\ UNCHANGED <<launched, statusVars, metricsVars, convertVars, cliVars>>

Next ==
    \/ LaunchSimulation
    \/ GetSimulationStatus
    \/ ListSimulations
    \/ StopSimulation
    \/ RemoveSimulation
    \/ RuntimeExit

Spec == Init /\ [][Next]_vars

(***************************************************************************)
(* SpecFailures: every operation of the Client, each runtime call of which *)
(* may fail, with no other client of the runtime                           *)
(***************************************************************************)
\* No operation reads the name of a configuration to decide which calls it
\* makes: one configuration is launched here.
FailureConfigs == {[Name |-> "demo", ConfigPath |-> "/app/configs/simulation.json"]}
LaunchSimulationOnce == LaunchSimulationOf(FailureConfigs)

NextFailures ==
    \/ LaunchSimulationOnce
    \/ GetSimulationStatus
    \/ ListSimulations
    \/ GetSimulationMetricsOfContainer
    \/ StopSimulation
    \/ RemoveSimulation
    \/ GetSimulationLogs

SpecFailures == Init /\ [][NextFailures]_vars

(***************************************************************************)
(* SpecLife: the life of simulations of one configuration, from launch     *)
(* through stops and exits to removal                                      *)
(***************************************************************************)
NextLife ==
    \/ LaunchSimulationOnce
    \/ GetSimulationStatus
    \/ ListSimulations
    \/ StopSimulation
    \/ RemoveSimulation
    \/ RuntimeExit

SpecLife == Init /\ [][NextLife]_vars

(***************************************************************************)
(* SpecObserve: inspect and list while the runtime changes the state of    *)
(* the containers and other clients create containers of their own         *)
(***************************************************************************)
NextObserve ==
    \/ LaunchSimulation
    \/ GetSimulationStatus
    \/ ListSimulations
    \/ RuntimeExit
    \/ RuntimePause
    \/ RuntimeUnpause
    \/ RuntimeForeignCreate

SpecObserve == Init /\ [][NextObserve]_vars

(***************************************************************************)
(* SpecConvert: the operations that build a Simulation, applied to any     *)
(* container description the runtime can hand over                         *)
(***************************************************************************)
\* Identifiers of several lengths, shorter than the short form included.
RawIDLengths == {5, 11, 12, 14}
RawID(n) == [k \in 1..n |-> IF k = 1 THEN "9" ELSE "a"]
RawIDs == {RawID(n) : n \in RawIDLengths}
\* Timestamps of a state block: none, not a time, a layout that is not
\* RFC 3339, and the well-formed ones.
RawTimes == {"", "not a time", SpacedTime, ZeroTime, StartTime, FinishTime,
             WholeSecondTime}
RawConvertStates ==
    {[s EXCEPT !.StartedAt = a, !.FinishedAt = b] :
        s \in {StateCreated, StateRunning, StateExited(0)},
        a \in RawTimes, b \in RawTimes}
RawLabelSets == {(LabelSimulation :> "true") @@ (LabelName :> "demo"),
                 (LabelSimulation :> "true")}
RawContainers ==
    {[kind |-> "container", ID |-> id, Labels |-> labels, State |-> st] :
        id \in RawIDs, labels \in RawLabelSets, st \in RawConvertStates}

\* The runtime that holds rawContainer and nothing else.
RawRuntime == [id \in {rawContainer.ID} |-> rawContainer]

InitConvert ==
    /\ rawContainer \in RawContainers
    /\ conversion = NoConversion
    /\ StatusIdle
    /\ MetricsIdle
    /\ LifeIdle
    /\ CliIdle

\* GetSimulationStatus of the container
ConvertInspected ==
    /\ LET r == GetSimulationStatusRun(RawRuntime, rawContainer.ID, FALSE)
       IN  conversion' = [by |-> "GetSimulationStatus", err |-> r.err, sim |-> r.sim]
    /\ UNCHANGED <<rawContainer, statusVars, metricsVars, lifeVars, cliVars>>

\* ListSimulations of a runtime that holds the container, which is listed
ConvertListed ==
    /\ LET r == ListSimulationsRun(RawRuntime, FALSE)
       IN  conversion' = [by |-> "ListSimulations", err |-> r.err,
                          sim |-> CHOOSE sim \in r.sims : TRUE]
    /\ UNCHANGED <<rawContainer, statusVars, metricsVars, lifeVars, cliVars>>

\* LaunchSimulation when create answers with the identifier of the container
ConvertLaunched ==
    \E config \in Configs :
        /\ LET r == LaunchSimulationRun([id \in {rawContainer.ID} |-> Absent], config,
                                        rawContainer.ID, FALSE, FALSE)
           IN  conversion' = [by |-> "LaunchSimulation", err |-> r.err, sim |-> r.sim]
        /\ UNCHANGED <<rawContainer, statusVars, metricsVars, lifeVars, cliVars>>

\* `autobox status <id>` prints the table of the Simulation that
\* GetSimulationStatus returned
OutputStatusTable ==
    /\ conversion.by = "GetSimulationStatus"
    /\ conversion.err = Nil
    /\ conversion.sim # Panic
    /\ cmdResult' = [cmd |-> "status", out |-> outputStatusTable(conversion.sim)]
    /\ UNCHANGED <<cmdInput, rawContainer, conversion, statusVars, metricsVars, lifeVars,
                   loaderVars, runVars, configVars>>

NextConvert ==
    \/ ConvertInspected
    \/ ConvertListed
    \/ ConvertLaunched
    \/ OutputStatusTable

SpecConvert == InitConvert /\ [][NextConvert]_vars

(***************************************************************************)
(* SpecLoader: the three functions of the config loader on any content of  *)
(* the simulations and metrics directories                                 *)
(***************************************************************************)
\* The simulation names given on the command line: the names of the files,
\* one capitalised, one with the .json suffix, and one that has no file.
SimulationNames ==
    {DemoName, DashName, UnderscoreName, Title(DemoName), DemoName \o Json,
     <<"g", "h", "o", "s", "t">>}

InitLoader ==
    /\ fs \in FileSystems
    /\ loaderResult = NoLoaderResult
    /\ StatusIdle
    /\ MetricsIdle
    /\ LifeIdle
    /\ ConvertIdle
    /\ RunIdle
    /\ CmdIdle
    /\ ConfigIdle

Validate ==
    \E simulationName \in SimulationNames, homeFails \in BOOLEAN :
        /\ LET r == ValidateSimulationConfig(fs, homeFails, simulationName)
           IN  loaderResult' = [fn |-> "ValidateSimulationConfig",
                                name |-> simulationName, err |-> r.err,
                                fileName |-> r.fileName, names |-> <<>>,
                                configSet |-> NoConfigSet]
        /\ UNCHANGED <<fs, statusVars, metricsVars, lifeVars, convertVars, runVars, cmdVars, configVars>>

ListAvailable ==
    \E homeFails \in BOOLEAN :
        /\ LET r == ListAvailableSimulations(fs, homeFails)
           IN  loaderResult' = [fn |-> "ListAvailableSimulations", name |-> <<>>,
                                err |-> r.err, fileName |-> <<>>, names |-> r.names,
                                configSet |-> NoConfigSet]
        /\ UNCHANGED <<fs, statusVars, metricsVars, lifeVars, convertVars, runVars, cmdVars, configVars>>

Load ==
    \E simulationName \in SimulationNames, homeFails \in BOOLEAN :
        /\ LET r == LoadSimulationConfig(fs, homeFails, simulationName)
           IN  loaderResult' = [fn |-> "LoadSimulationConfig",
                                name |-> simulationName, err |-> r.err,
                                fileName |-> FileNameOf(simulationName),
                                names |-> <<>>, configSet |-> r.configSet]
        /\ UNCHANGED <<fs, statusVars, metricsVars, lifeVars, convertVars, runVars, cmdVars, configVars>>

NextLoader ==
    \/ Validate
    \/ ListAvailable
    \/ Load

SpecLoader == InitLoader /\ [][NextLoader]_vars

(***************************************************************************)
(* SpecRun: one `autobox run` process with any command line, on any        *)
(* configuration files, against the runtime                                *)
(***************************************************************************)
\* The simulations and metrics directories hold demo.json, or are empty.
RunFileSystems ==
    {[sim |-> d, met |-> d] :
        d \in {[kind |-> "dir", entries |-> NoFiles],
               [kind |-> "dir", entries |-> [NoFiles EXCEPT ![1] = "file"]]}}
RunWorlds ==
    {[kind |-> "files",
      simulation |-> JsonNamed(GiftName),
      files |-> (LocalConfigPath(DefaultConfigPath) :> d)
                @@ (LocalConfigPath(MountedConfigPath) :> m)
                @@ (HostConfigPath :> h),
      metricsDefault |-> x] :
        d \in {FileMissing, JsonNamed(GiftName)},
        m \in {FileNotJson, JsonUnnamed, JsonNumberName, JsonNamed(GiftName)},
        h \in {FileMissing, JsonNamed(HostedName)},
        x \in BOOLEAN}

InitRun ==
    /\ fs \in RunFileSystems
    /\ loaderResult = NoLoaderResult
    /\ runWorld \in RunWorlds
    /\ runResult = NoRun
    /\ StatusIdle
    /\ MetricsIdle
    /\ LifeIdle
    /\ ConvertIdle
    /\ CmdIdle
    /\ ConfigIdle

RunSimulation ==
    \E in \in RunInputs, newID \in ContainerIDs :
        /\ runResult = NoRun
        /\ containers[newID] = Absent
        /\ LET r == RunSimulationRun(runWorld, fs, containers, newID, in)
           IN  /\ runWorld' = r.world
               /\ containers' = r.rt
               /\ calls' = r.calls
               /\ runResult' = [op |-> "run", positional |-> in.args # <<>>,
                                 runConfig |-> in.runConfig,
                                 runMetricsPath |-> in.runMetricsPath,
                                 runName |-> in.runName, err |-> r.err,
                                 config |-> r.config, used |-> r.used,
                                 containerID |-> r.containerID]
        /\ UNCHANGED <<result, launched, fs, loaderResult, statusVars, metricsVars,
                       convertVars, cmdVars, configVars>>

NextRun == RunSimulation

SpecRun == InitRun /\ [][NextRun]_vars

(***************************************************************************)
(* SpecList: `autobox list` on every list that ListSimulations can return  *)
(***************************************************************************)
MaxListed == 3
SimulationStatuses ==
    {StatusPending, StatusRunning, StatusCompleted, StatusFailed, StatusStopped}
ListedEntries == [ID : {"s1", "s2"}, Status : SimulationStatuses]
RECURSIVE SeqsUpTo(_, _)
SeqsUpTo(S, n) ==
    IF n = 0 THEN {<<>>}
    ELSE LET shorter == SeqsUpTo(S, n - 1)
         IN  shorter \cup {Append(q, x) : q \in {r \in shorter : Len(r) = n - 1}, x \in S}

InitList ==
    /\ cmdInput \in {[kind |-> "simulations", sims |-> q] :
                        q \in SeqsUpTo(ListedEntries, MaxListed)}
    /\ cmdResult = NoCommand
    /\ StatusIdle
    /\ MetricsIdle
    /\ LifeIdle
    /\ ConvertIdle
    /\ LoaderIdle
    /\ RunIdle
    /\ ConfigIdle

RunList ==
    \E listAll \in BOOLEAN, listFails \in BOOLEAN :
        /\ cmdInput.kind = "simulations"
        /\ LET r == RunListRun(cmdInput.sims, listAll, listFails)
           IN  cmdResult' = [cmd |-> "list", listAll |-> listAll, err |-> r.err,
                             shown |-> r.shown]
        /\ UNCHANGED <<cmdInput, statusVars, metricsVars, lifeVars, convertVars,
                       loaderVars, runVars, configVars>>

NextList == RunList

SpecList == InitList /\ [][NextList]_vars

(***************************************************************************)
(* SpecConfig: calls of config.Init and config.Get in any order, with the  *)
(* configuration file rewritten between them                               *)
(***************************************************************************)
InitConfig ==
    /\ configFile \in ConfigFiles
    /\ cfg = NilConfig
    /\ configResult = NoCall
    /\ StatusIdle
    /\ MetricsIdle
    /\ LifeIdle
    /\ ConvertIdle
    /\ LoaderIdle
    /\ RunIdle
    /\ CmdIdle

\* rootCmd.PersistentPreRun calls it and prints the error
CallInit ==
    \E homeFails \in BOOLEAN :
        /\ LET r == ConfigInit(configFile, cfg, homeFails)
           IN  /\ cfg' = r.cfg
               /\ configResult' = [fn |-> "Init", err |-> r.err, out |-> NilConfig]
        /\ UNCHANGED <<configFile, statusVars, metricsVars, lifeVars, convertVars,
                       loaderVars, runVars, cmdVars>>

CallGet ==
    \E homeFails \in FailsIf(cfg = NilConfig) :
        /\ LET r == ConfigGet(configFile, cfg, homeFails)
           IN  /\ cfg' = r.cfg
               /\ configResult' = [fn |-> "Get", err |-> Nil, out |-> r.out]
        /\ UNCHANGED <<configFile, statusVars, metricsVars, lifeVars, convertVars,
                       loaderVars, runVars, cmdVars>>

\* The user rewrites autobox.yaml
WriteConfigFile ==
    \E file \in ConfigFiles :
        /\ file # configFile
        /\ configFile' = file
        /\ UNCHANGED <<cfg, configResult, statusVars, metricsVars, lifeVars,
                       convertVars, loaderVars, runVars, cmdVars>>

NextConfig ==
    \/ CallInit
    \/ CallGet
    \/ WriteConfigFile

SpecConfig == InitConfig /\ [][NextConfig]_vars

(***************************************************************************)
(* SpecTerminate: one `autobox terminate` process against a runtime with   *)
(* launched simulations, some of which have exited                         *)
(***************************************************************************)
InitTerminate ==
    /\ StatusIdle
    /\ MetricsIdle
    /\ LifeIdle
    /\ ConvertIdle
    /\ LoaderIdle
    /\ RunIdle
    /\ CmdIdle
    /\ ConfigIdle

\* The outcomes of the stop and of the remove made for each listed
\* simulation; none is drawn for a call that is not made.
NoFailures == [id \in ContainerIDs |-> [stopFails |-> FALSE, removeFails |-> FALSE]]
TerminateOutcomes(made) ==
    IF ~made THEN {NoFailures}
    ELSE {o \in [ContainerIDs -> [stopFails : BOOLEAN, removeFails : BOOLEAN]] :
             \A id \in ContainerIDs : ~Exists(containers, id) => o[id] = NoFailures[id]}
SomeListed == \E id \in ContainerIDs : Exists(containers, id)
SomeRunning == \E id \in ContainerIDs : Stops(id, FALSE)

LaunchedAfter(rt) ==
    [id \in ContainerIDs |-> IF Exists(rt, id) THEN launched[id] ELSE NotLaunched]

\* The exit code of a stopped process is seen only where a container is left.
TerminateAll ==
    \E terminateForce \in BOOLEAN, listFails \in BOOLEAN :
      \E response \in (IF terminateForce \/ listFails \/ ~SomeListed
                        THEN {""} ELSE Responses) :
      \E outcome \in TerminateOutcomes(~listFails
                                        /\ (terminateForce \/ Confirms(response))) :
      \E code \in CodesIf(SomeRunning /\ outcome # NoFailures) :
        /\ cmdResult = NoCommand
        /\ LET r == TerminateAllRun(containers, terminateForce, response, listFails,
                                    outcome, code)
           IN  /\ containers' = r.rt
               /\ calls' = r.calls
               /\ launched' = LaunchedAfter(r.rt)
               /\ cmdResult' = [cmd |-> "terminate", all |-> TRUE, err |-> r.err,
                                 listed |-> r.listed, terminated |-> r.terminated,
                                 failed |-> r.failed, ended |-> r.ended]
        /\ result' = NoOperation
        /\ UNCHANGED <<cmdInput, statusVars, metricsVars, convertVars, loaderVars,
                       runVars, configVars>>

TerminateOne ==
    \E simulationID \in ContainerIDs, terminateForce \in BOOLEAN :
      \E response \in (IF terminateForce THEN {""} ELSE Responses) :
      \E inspectFails \in FailsIf(~terminateForce) :
      \E stopFails \in FailsIf(terminateForce \/ Confirms(response)) :
      \E removeFails \in FailsIf(terminateForce \/ Confirms(response)) :
      \E code \in CodesIf((terminateForce \/ Confirms(response))
                           /\ Stops(simulationID, stopFails)) :
        /\ cmdResult = NoCommand
        /\ LET r == TerminateOneRun(containers, simulationID, terminateForce, response,
                                    inspectFails, stopFails, code, removeFails)
           IN  /\ containers' = r.rt
               /\ calls' = r.calls
               /\ launched' = LaunchedAfter(r.rt)
               /\ cmdResult' = [cmd |-> "terminate", all |-> FALSE, err |-> r.err,
                                 listed |-> r.listed, terminated |-> r.terminated,
                                 failed |-> r.failed, ended |-> r.ended]
        /\ result' = NoOperation
        /\ UNCHANGED <<cmdInput, statusVars, metricsVars, convertVars, loaderVars,
                       runVars, configVars>>

\* What happened in the runtime before the terminate command started
LaunchBeforeTerminate == cmdResult = NoCommand /\ LaunchSimulationOnce
ExitBeforeTerminate == cmdResult = NoCommand /\ RuntimeExit

NextTerminate ==
    \/ LaunchBeforeTerminate
    \/ ExitBeforeTerminate
    \/ TerminateAll
    \/ TerminateOne

SpecTerminate == InitTerminate /\ [][NextTerminate]_vars

(***************************************************************************)
(* SpecTruncate: truncate on every short string and every small width      *)
(***************************************************************************)
MaxStringLen == 4
MaxWidth == 5
InitTruncate ==
    /\ cmdInput \in {[kind |-> "string", s |-> q, max |-> m] :
                        q \in SeqsUpTo({"a", "b"}, MaxStringLen), m \in 0..MaxWidth}
    /\ cmdResult = NoCommand
    /\ StatusIdle
    /\ MetricsIdle
    /\ LifeIdle
    /\ ConvertIdle
    /\ LoaderIdle
    /\ RunIdle
    /\ ConfigIdle

Truncate ==
    /\ cmdInput.kind = "string"
    /\ cmdResult' = [cmd |-> "truncate", out |-> truncate(cmdInput.s, cmdInput.max)]
    /\ UNCHANGED <<cmdInput, statusVars, metricsVars, lifeVars, convertVars,
                   loaderVars, runVars, configVars>>

NextTruncate == Truncate

SpecTruncate == InitTruncate /\ [][NextTruncate]_vars

(***************************************************************************)
(* Properties of the status normalizers (SpecStatus)                       *)
(***************************************************************************)
NoFlag(state) ==
    ~state.Running /\ ~state.Dead /\ ~state.Paused /\ ~state.Restarting

\* C1: on the inspect path the status is that of the first rule that matches,
\* in the order running, dead, paused, restarting, exited with code 0, exited
\* with another code, otherwise pending, for every combination of the flags,
\* the status word and the exit code.
C1_FirstMatchWins ==
    inspectStatus # NoStatus =>
        /\ rawState.Running => inspectStatus = StatusRunning
        /\ (~rawState.Running /\ rawState.Dead) => inspectStatus = StatusFailed
        /\ (~rawState.Running /\ ~rawState.Dead /\ rawState.Paused)
              => inspectStatus = StatusStopped
        /\ (~rawState.Running /\ ~rawState.Dead /\ ~rawState.Paused
              /\ rawState.Restarting) => inspectStatus = StatusRunning
        /\ (NoFlag(rawState) /\ rawState.Status = WordExited /\ rawState.ExitCode = 0)
              => inspectStatus = StatusCompleted
        /\ (NoFlag(rawState) /\ rawState.Status = WordExited /\ rawState.ExitCode # 0)
              => inspectStatus = StatusFailed
        /\ (NoFlag(rawState) /\ rawState.Status # WordExited)
              => inspectStatus = StatusPending

\* C1 witness: a block with running and dead both set was normalized to running.
C1_RunningAndDead ==
    /\ rawState.Running
    /\ rawState.Dead
    /\ inspectStatus = StatusRunning

Spellings(w) == {w, ToUpper(w), Title(w)}

\* C2: on the list path the word is mapped whatever its case: running to
\* running, exited to completed, dead to failed, paused to stopped, and every
\* other word to pending, whatever the exit code of the container is.
C2_BareWordMapping ==
    listStatus # NoStatus =>
        /\ rawWord \in Spellings(WordRunning) => listStatus = StatusRunning
        /\ rawWord \in Spellings(WordExited) => listStatus = StatusCompleted
        /\ rawWord \in Spellings(WordDead) => listStatus = StatusFailed
        /\ rawWord \in Spellings(WordPaused) => listStatus = StatusStopped
        /\ rawWord \in Spellings(WordCreated) \cup Spellings(WordRestarting)
                       \cup Spellings(WordRemoving) \cup {WordEmpty}
              => listStatus = StatusPending

\* C2 witness: a capitalised "Exited" of a container with a non-zero exit code
\* was mapped to completed.
C2_CapitalisedExited ==
    /\ rawWord = Title(WordExited)
    /\ rawState.ExitCode # 0
    /\ listStatus = StatusCompleted

(***************************************************************************)
(* Properties of the telemetry (SpecMetrics)                               *)
(***************************************************************************)
StatsCallFailed == Failure("failed to get container stats")

\* The metrics call got its stats body and has ended, one way or another.
MetricsEnded == metricsResult \notin {NoResult, StatsCallFailed}

MetricsOk == metricsResult.kind = "ok"

\* C4: the CPU usage is never negative, and it is exactly zero whenever the
\* previous sample's total usage is zero.
C4_CpuNonNegativeZeroBaseline ==
    MetricsOk =>
        /\ metricsResult.metrics.CPUUsage.num >= 0
        /\ metricsResult.metrics.CPUUsage.den > 0
        /\ statsBody.stats.PreTotal = 0 => metricsResult.metrics.CPUUsage = FZero

\* C4 witness: no previous total, yet a current total, a system delta and cores.
C4_ZeroBaselineSample ==
    /\ MetricsOk
    /\ statsBody.stats.PreTotal = 0
    /\ statsBody.stats.CurTotal > 0
    /\ statsBody.stats.CurSystem > statsBody.stats.PreSystem
    /\ statsBody.stats.NCores > 0
    /\ metricsResult.metrics.CPUUsage = FZero

\* C5: the CPU usage is zero unless the usage delta and the system delta are
\* both strictly positive as signed differences of the counters.
C5_CpuZeroUnlessPositiveDeltas ==
    MetricsOk =>
        \/ metricsResult.metrics.CPUUsage = FZero
        \/ /\ statsBody.stats.CurTotal - statsBody.stats.PreTotal > 0
           /\ statsBody.stats.CurSystem - statsBody.stats.PreSystem > 0

\* C6: the memory usage is zero when the limit is zero and usage/limit*100
\* otherwise; usage 50 of limit 200 gives 25.
C6_MemoryPercent ==
    MetricsOk =>
        LET m == metricsResult.metrics.MemoryUsage
            st == statsBody.stats
        IN  /\ st.MemLimit = 0 => m = FZero
            /\ st.MemLimit > 0 => m.num * st.MemLimit = st.MemUsage * 100 * m.den
            /\ (st.MemUsage = 50 /\ st.MemLimit = 200) => m = [num |-> 25, den |-> 1]

\* C6 witness: usage 512 with no limit was reported as zero.
C6_NoLimitSample ==
    /\ MetricsOk
    /\ statsBody.stats.MemUsage = 512
    /\ statsBody.stats.MemLimit = 0
    /\ metricsResult.metrics.MemoryUsage = FZero

\* C7 as stated: the memory usage of every sample lies in [0, 100].
C7_MemoryWithinHundred ==
    MetricsOk =>
        /\ metricsResult.metrics.MemoryUsage.num >= 0
        /\ FLeq(metricsResult.metrics.MemoryUsage, 100)

\* C7: the memory usage is never negative; it is at most 100 when the limit is
\* zero or the usage does not exceed the limit, and above 100 when the usage
\* exceeds a non-zero limit.
C7_MemoryWithinHundredIfUnderLimit ==
    MetricsOk =>
        LET m == metricsResult.metrics.MemoryUsage
            st == statsBody.stats
        IN  /\ m.num >= 0
            /\ (st.MemLimit = 0 \/ st.MemUsage <= st.MemLimit) => FLeq(m, 100)
            /\ (st.MemLimit > 0 /\ st.MemUsage > st.MemLimit) => FGt(m, 100)

\* C7 witness: a sample whose usage exceeds its non-zero limit.
C7_OverLimitSample ==
    /\ MetricsOk
    /\ statsBody.stats.MemLimit > 0
    /\ statsBody.stats.MemUsage > statsBody.stats.MemLimit
    /\ FGt(metricsResult.metrics.MemoryUsage, 100)

ZeroNetworkIO ==
    [BytesReceived |-> 0, BytesTransmitted |-> 0,
     PacketsReceived |-> 0, PacketsTransmitted |-> 0]
ZeroDiskIO == [BytesRead |-> 0, BytesWritten |-> 0]

\* C8: a stats body that ends before any byte is read is an empty sample: the
\* call returns, without error or panic, metrics whose counters are all zero.
C8_EmptyBodyGivesZeroMetrics ==
    (statsBody.kind = "eof" /\ MetricsEnded) =>
        /\ MetricsOk
        /\ metricsResult.metrics.CPUUsage = FZero
        /\ metricsResult.metrics.MemoryUsage = FZero
        /\ metricsResult.metrics.NetworkIO = ZeroNetworkIO
        /\ metricsResult.metrics.DiskIO = ZeroDiskIO

\* C9: a decodable sample never makes the call panic: with fewer than two
\* block-I/O entries the disk counters are zero, without the eth0 interface
\* the network counters are zero, and metrics are returned.
C9_MissingFieldsDegradeToZero ==
    (statsBody.kind = "json" /\ MetricsEnded) =>
        /\ MetricsOk
        /\ Len(statsBody.stats.Blkio) < 2 => metricsResult.metrics.DiskIO = ZeroDiskIO
        /\ ~statsBody.stats.Eth0.present => metricsResult.metrics.NetworkIO = ZeroNetworkIO

(***************************************************************************)
(* Properties of the lifecycle operations (Spec)                           *)
(***************************************************************************)
\* The container exited with code 0: no flag set, the word exited.
ExitedZero(id) ==
    /\ Exists(containers, id)
    /\ NoFlag(containers[id].State)
    /\ containers[id].State.Status = WordExited
    /\ containers[id].State.ExitCode = 0

\* The container carries the managed-simulation label with the value "true".
Managed(id) ==
    /\ Exists(containers, id)
    /\ LabelSimulation \in DOMAIN containers[id].Labels
    /\ containers[id].Labels[LabelSimulation] = "true"

\* C3: a container that exited with code 0 is reported completed by
\* GetSimulationStatus and, when it is a managed simulation, by
\* ListSimulations alike.
C3_ExitedZeroCompletedOnBothPaths ==
    /\ (result.op = "GetSimulationStatus" /\ result.err = Nil /\ ExitedZero(result.id))
          => result.sim.Status = StatusCompleted
    /\ (result.op = "ListSimulations" /\ result.err = Nil)
          => /\ \A sim \in result.sims :
                   ExitedZero(sim.ContainerID) => sim.Status = StatusCompleted
             /\ \A id \in ContainerIDs :
                   (ExitedZero(id) /\ Managed(id)) =>
                       \E sim \in result.sims :
                           sim.ContainerID = id /\ sim.Status = StatusCompleted

\* C3 witness: a listing that holds a container that exited with code 0.
C3_ListedExitedZero ==
    /\ result.op = "ListSimulations"
    /\ \E sim \in result.sims :
          ExitedZero(sim.ContainerID) /\ sim.Status = StatusCompleted

\* C10: a forced remove issues a stop with a 10-second grace and then the
\* remove, whatever the stop returned; it succeeds exactly when the remove
\* succeeds, and the error it returns is the remove's, never the stop's.
C10_ForcedRemoveIgnoresStop ==
    (result.op = "RemoveSimulation" /\ result.force) =>
        /\ Len(calls) = 2
        /\ calls[1].op = "stop" /\ calls[1].id = result.id /\ calls[1].timeout = 10
        /\ calls[2].op = "remove" /\ calls[2].id = result.id /\ calls[2].force
        /\ (result.err = Nil) <=> (calls[2].err = Nil)
        /\ result.err = Nil => containers[result.id] = Removed
        /\ result.err # Nil =>
              result.err = Wrap("failed to remove container", calls[2].err)
        /\ calls[2].err = Nil \/ calls[2].err.call = "remove"

\* C10 witness: the preliminary stop failed and the forced remove succeeded.
C10_StopFailedRemoveSucceeded ==
    /\ result.op = "RemoveSimulation"
    /\ result.force
    /\ Len(calls) = 2
    /\ calls[1].err # Nil
    /\ result.err = Nil

(***************************************************************************)
(* Properties of removal and launch (Spec)                                 *)
(***************************************************************************)
IsRunning(rt, id) == Exists(rt, id) /\ rt[id].State.Running

\* C11: RemoveSimulation without force on a running container issues no
\* stop, returns an error, and leaves the container as it was: present and
\* still running.
C11_UnforcedRemoveOfRunningFails ==
    [][(/\ result'.op = "RemoveSimulation"
        /\ ~result'.force
        /\ IsRunning(containers, result'.id))
       => /\ \A i \in 1..Len(calls') : calls'[i].op # "stop"
          /\ result'.err # Nil
          /\ containers'[result'.id] = containers[result'.id]
          /\ IsRunning(containers', result'.id)]_vars

\* C11 witness: the runtime refused an unforced remove because the container
\* is running, and the container is still running.
C11_RefusedWhileRunning ==
    /\ result.op = "RemoveSimulation"
    /\ ~result.force
    /\ Len(calls) = 1
    /\ calls[1].err = RtErr("remove", "conflict")
    /\ result.err = Wrap("failed to remove container", RtErr("remove", "conflict"))
    /\ IsRunning(containers, result.id)

\* C12: LaunchSimulation issues create and then start, one after the other.
\* When create fails it issues nothing else.  When create succeeds and start
\* fails it returns an error and no Simulation, issues no remove, and the
\* created container is still in the runtime, never started.
C12_CreateThenStartNoRollback ==
    result.op = "LaunchSimulation" =>
        /\ Len(calls) \in {1, 2}
        /\ calls[1].op = "create"
        /\ calls[1].err # Nil =>
              /\ Len(calls) = 1
              /\ result.err = Wrap("failed to create container", calls[1].err)
              /\ result.sim = Absent
        /\ calls[1].err = Nil =>
              /\ Len(calls) = 2
              /\ calls[2].op = "start"
              /\ calls[2].id = calls[1].id
              /\ Exists(containers, calls[1].id)
              /\ calls[2].err # Nil =>
                    /\ result.err = Wrap("failed to start container", calls[2].err)
                    /\ result.sim = Absent
                    /\ containers[calls[1].id].State = StateCreated

\* C12 witness: create succeeded, start failed, and the container is left
\* in the runtime in the created state.
C12_StartFailedContainerLeft ==
    /\ result.op = "LaunchSimulation"
    /\ Len(calls) = 2
    /\ calls[1].err = Nil
    /\ calls[2].err # Nil
    /\ result.err # Nil
    /\ Exists(containers, calls[1].id)
    /\ containers[calls[1].id].State = StateCreated

LaunchSucceeded ==
    /\ result.op = "LaunchSimulation"
    /\ Len(calls) = 2
    /\ calls[1].err = Nil
    /\ calls[2].err = Nil

\* C13: when create and start both succeed, LaunchSimulation returns no
\* error and a Simulation with status Running, startedAt set, finishedAt
\* unset, containerId the identifier that create returned, id its first 12
\* characters, and config the configuration that was passed in.
C13_LaunchedSimulationFields ==
    LaunchSucceeded =>
        /\ result.err = Nil
        /\ result.sim.Status = StatusRunning
        /\ result.sim.StartedAt # Unset
        /\ result.sim.FinishedAt = Unset
        /\ result.sim.ContainerID = calls[1].id
        /\ Len(result.sim.ID) = 12
        /\ \A i \in 1..12 : result.sim.ID[i] = calls[1].id[i]
        /\ result.sim.Config = launched[calls[1].id].config

\* C13 witness: a successful launch of the configuration named "batch" whose
\* short identifier is shorter than the container identifier.
C13_LaunchedBatch ==
    /\ LaunchSucceeded
    /\ result.err = Nil
    /\ result.sim.Config.Name = "batch"
    /\ Len(result.sim.ID) < Len(result.sim.ContainerID)

\* C15: the name of the Simulation that LaunchSimulation returns is the value
\* written to the name label of the container it created, the name that a
\* GetSimulationStatus of that container reports.
C15_LaunchNameIsNameLabel ==
    LaunchSucceeded =>
        /\ result.sim.Name = containers[calls[1].id].Labels[LabelName]
        /\ result.sim.Name = containerToSimulation(containers[calls[1].id]).Name

(***************************************************************************)
(* Properties of inspect and list (SpecObserve)                            *)
(***************************************************************************)
\* The name that GetSimulationStatus or ListSimulations must report for the
\* container sim describes.
NameRoundTrips(sim) ==
    /\ launched[sim.ContainerID] # NotLaunched =>
          sim.Name = launched[sim.ContainerID].config.Name
    /\ LabelName \notin DOMAIN containers[sim.ContainerID].Labels =>
          sim.Name = ""

\* C14: a simulation launched with name N reports name N when inspected
\* with GetSimulationStatus and when listed with ListSimulations; a container
\* without the name label reports the empty name.
C14_NameRoundTrip ==
    /\ (result.op = "GetSimulationStatus" /\ result.err = Nil) =>
          /\ result.sim.ContainerID = result.id
          /\ NameRoundTrips(result.sim)
    /\ (result.op = "ListSimulations" /\ result.err = Nil) =>
          /\ \A sim \in result.sims : NameRoundTrips(sim)
          /\ \A id \in ContainerIDs :
                launched[id] # NotLaunched =>
                    \E sim \in result.sims : sim.ContainerID = id

\* C14 witness: a listing with a simulation launched as "batch" and a
\* container that has no name label.
C14_ListedBatchAndUnnamed ==
    /\ result.op = "ListSimulations"
    /\ \E sim \in result.sims :
          /\ launched[sim.ContainerID] # NotLaunched
          /\ launched[sim.ContainerID].config.Name = "batch"
          /\ sim.Name = "batch"
    /\ \E sim \in result.sims :
          /\ LabelName \notin DOMAIN containers[sim.ContainerID].Labels
          /\ sim.Name = ""

\* C16: ListSimulations returns exactly the containers, running or not, whose
\* managed-simulation label is "true", each once: no container without that
\* label, whatever other reserved labels it carries, and every labelled
\* container that has exited.
C16_ListsExactlyManaged ==
    (result.op = "ListSimulations" /\ result.err = Nil) =>
        /\ {sim.ContainerID : sim \in result.sims} =
              {id \in ContainerIDs : Managed(id)}
        /\ Cardinality(result.sims) =
              Cardinality({id \in ContainerIDs : Managed(id)})

\* C16 witness: the listing holds a labelled container that has exited and
\* leaves out a container that carries the name label without the marker.
C16_ExitedListedUnmarkedLeftOut ==
    /\ result.op = "ListSimulations"
    /\ result.err = Nil
    /\ \E sim \in result.sims :
          containers[sim.ContainerID].State.Status = WordExited
    /\ \E id \in ContainerIDs :
          /\ Exists(containers, id)
          /\ LabelName \in DOMAIN containers[id].Labels
          /\ LabelSimulation \notin DOMAIN containers[id].Labels
          /\ \A sim \in result.sims : sim.ContainerID # id

\* C20: the status that GetSimulationStatus and ListSimulations report is
\* computed from the state the runtime holds at the call, whatever earlier
\* calls reported: the inspect normalizer of the state block, the list
\* normalizer of the state word; a container that has exited with code 0 is
\* Completed and one whose process runs is Running.
C20_StatusFromCurrentState ==
    /\ (result.op = "GetSimulationStatus" /\ result.err = Nil) =>
          /\ result.sim.Status = containerStateToStatus(containers[result.id].State)
          /\ ExitedZero(result.id) => result.sim.Status = StatusCompleted
          /\ containers[result.id].State = StateRunning =>
                result.sim.Status = StatusRunning
    /\ (result.op = "ListSimulations" /\ result.err = Nil) =>
          \A sim \in result.sims :
              /\ sim.Status = containerStateStringToStatus(
                                  containers[sim.ContainerID].State.Status)
              /\ ExitedZero(sim.ContainerID) => sim.Status = StatusCompleted
              /\ containers[sim.ContainerID].State = StateRunning =>
                    sim.Status = StatusRunning

\* C20 witness: an inspect of a launched simulation, which was running, after
\* it exited with code 0 reports Completed.
C20_InspectedAfterExit ==
    /\ result.op = "GetSimulationStatus"
    /\ result.err = Nil
    /\ launched[result.id] # NotLaunched
    /\ ExitedZero(result.id)
    /\ containers[result.id].State.StartedAt = StartTime
    /\ result.sim.Status = StatusCompleted

(***************************************************************************)
(* Properties of the Simulation values built (SpecConvert)                 *)
(***************************************************************************)
IsPrefixOf(short, long) ==
    /\ Len(short) <= Len(long)
    /\ \A i \in 1..Len(short) : short[i] = long[i]

\* C17: every Simulation that LaunchSimulation, GetSimulationStatus or
\* ListSimulations produces has an id that is a prefix of its containerId, the
\* first 12 characters of it; a runtime identifier shorter than 12 characters
\* is rejected with an error or used in full, and never crashes the call.
C17_IdIsPrefixNeverCrashes ==
    conversion.by # "none" =>
        /\ conversion.sim # Panic
        /\ conversion.err = Nil =>
              /\ conversion.sim.ContainerID = rawContainer.ID
              /\ IsPrefixOf(conversion.sim.ID, conversion.sim.ContainerID)
              /\ \/ Len(conversion.sim.ID) = 12
                 \/ conversion.sim.ID = conversion.sim.ContainerID

\* The timestamps that are well-formed RFC 3339.
WellFormedTimes == {ZeroTime, StartTime, FinishTime, WholeSecondTime}

\* C18: GetSimulationStatus does not fail because of the started or finished
\* timestamp: startedAt is set exactly when the runtime's field is non-empty
\* and parses, and so is finishedAt, whatever the other field and the status.
C18_TimestampsSetIffTheyParse ==
    (conversion.by = "GetSimulationStatus" /\ conversion.sim # Panic) =>
        /\ conversion.err = Nil
        /\ conversion.sim.StartedAt # Unset
              <=> rawContainer.State.StartedAt \in WellFormedTimes
        /\ conversion.sim.FinishedAt # Unset
              <=> rawContainer.State.FinishedAt \in WellFormedTimes
        /\ conversion.sim.Status = containerStateToStatus(rawContainer.State)

\* C18 witness: a running container whose start time does not parse and
\* whose finish time does; startedAt is unset and finishedAt is set.
C18_FinishedSetStartedUnset ==
    /\ conversion.by = "GetSimulationStatus"
    /\ conversion.err = Nil
    /\ conversion.sim # Panic
    /\ rawContainer.State.StartedAt = SpacedTime
    /\ rawContainer.State.FinishedAt = WholeSecondTime
    /\ conversion.sim.Status = StatusRunning
    /\ conversion.sim.StartedAt = Unset
    /\ conversion.sim.FinishedAt # Unset

(***************************************************************************)
(* Properties of error propagation (SpecFailures)                          *)
(***************************************************************************)
\* The i-th call of the last operation is the preliminary stop of a forced
\* remove.
PreliminaryStop(i) ==
    /\ result.op = "RemoveSimulation"
    /\ result.force
    /\ calls[i].op = "stop"

\* C19: a runtime call that fails within LaunchSimulation, GetSimulationStatus,
\* ListSimulations, GetSimulationMetrics, StopSimulation, GetSimulationLogs, or
\* the remove call of RemoveSimulation, ends the operation with an error that
\* wraps the call's error, and no call is issued twice within one operation;
\* only the failure of the preliminary stop of a forced remove is suppressed.
C19_FailuresSurfaceWithoutRetry ==
    /\ \A i \in 1..Len(calls) :
          (calls[i].err # Nil /\ ~PreliminaryStop(i)) =>
              /\ i = Len(calls)
              /\ result.err # Nil
              /\ result.err.cause = calls[i].err
    /\ \A i, j \in 1..Len(calls) : i # j => calls[i].op # calls[j].op
    /\ result.err = Nil =>
          \A i \in 1..Len(calls) : calls[i].err = Nil \/ PreliminaryStop(i)

\* C19 witness: the runtime was unavailable for the stop of a running
\* container; StopSimulation returned that error after the one call.
C19_StopUnavailable ==
    /\ result.op = "StopSimulation"
    /\ Len(calls) = 1
    /\ calls[1].err = RtErr("stop", "unavailable")
    /\ result.err = Wrap("failed to stop container", RtErr("stop", "unavailable"))
    /\ IsRunning(containers, result.id)

(***************************************************************************)
(* Properties of the config loader (SpecLoader)                            *)
(***************************************************************************)
HomeFailure == Failure("failed to get home directory")

\* There is a regular file of that name in the directory.
RegularFile(dir, fileName) ==
    /\ dir.kind = "dir"
    /\ \E i \in 1..Len(FileUniverse) :
          FileUniverse[i] = fileName /\ dir.entries[i] = "file"

\* C21: ValidateSimulationConfig returns no error only if the file
\* simulations/<file>.json and the file metrics/<file>.json of the name both
\* exist; when either is missing it returns an error.
C21_ValidOnlyIfBothFilesExist ==
    (loaderResult.fn = "ValidateSimulationConfig" /\ loaderResult.err = Nil) =>
        /\ RegularFile(fs.sim, loaderResult.fileName)
        /\ RegularFile(fs.met, loaderResult.fileName)

\* The positions in FileUniverse of the .json files that are regular files
\* in both directories.
InBoth ==
    {i \in 1..Len(FileUniverse) :
        /\ HasSuffix(FileUniverse[i], Json)
        /\ RegularFile(fs.sim, FileUniverse[i])
        /\ RegularFile(fs.met, FileUniverse[i])}

\* C22: ListAvailableSimulations returns exactly the names, file name without
\* .json, of the regular .json files present under the same file name in the
\* simulations and in the metrics directory, each once and in directory
\* order; a missing directory gives the empty list and no error.
C22_ListsNamesInBothDirectories ==
    (loaderResult.fn = "ListAvailableSimulations" /\ loaderResult.err # HomeFailure) =>
        /\ loaderResult.err = Nil =>
              /\ {loaderResult.names[k] : k \in 1..Len(loaderResult.names)} =
                    {SubSeq(FileUniverse[i], 1, Len(FileUniverse[i]) - Len(Json)) : i \in InBoth}
              /\ Len(loaderResult.names) = Cardinality(InBoth)
              /\ \A k, l \in 1..Len(loaderResult.names) :
                    k < l =>
                      \E i, j \in InBoth :
                          /\ i < j
                          /\ FileUniverse[i] = loaderResult.names[k] \o Json
                          /\ FileUniverse[j] = loaderResult.names[l] \o Json
        /\ (fs.sim.kind = "missing" \/ (fs.sim.kind = "dir" /\ fs.met.kind = "missing")) =>
              /\ loaderResult.err = Nil
              /\ loaderResult.names = <<>>
        /\ (fs.sim.kind = "dir" /\ fs.met.kind = "dir") => loaderResult.err = Nil

\* C22 witness: two names are listed, the simulations directory holds a
\* .json file that the metrics directory lacks, and both hold notes.txt.
C22_ListedTwoLeftOutUnmatched ==
    /\ loaderResult.fn = "ListAvailableSimulations"
    /\ loaderResult.names = <<DemoName, UnderscoreName>>
    /\ RegularFile(fs.sim, DashName \o Json)
    /\ ~RegularFile(fs.met, DashName \o Json)
    /\ RegularFile(fs.sim, NotesFile)
    /\ RegularFile(fs.met, NotesFile)

\* C29: a name that ListAvailableSimulations returns is accepted by
\* ValidateSimulationConfig and found by LoadSimulationConfig on the same
\* directories, under the file name <name>.json that made it listed.
C29_ListedNamesValidateAndLoad ==
    (/\ loaderResult.fn \in {"ValidateSimulationConfig", "LoadSimulationConfig"}
     /\ loaderResult.err # HomeFailure
     /\ \E k \in 1..Len(ListAvailableSimulations(fs, FALSE).names) :
           ListAvailableSimulations(fs, FALSE).names[k] = loaderResult.name)
    => /\ loaderResult.err = Nil
       /\ loaderResult.fileName = loaderResult.name \o Json

(***************************************************************************)
(* Properties of `autobox run` (SpecRun)                                   *)
(***************************************************************************)
\* C23: for a run without --name the name written to the name label of the
\* container is the "name" field of the simulation configuration file used,
\* when the simulation is selected by its positional name and when it is
\* selected by --config or by default.
C23_LabelIsNameFieldOfConfigFile ==
    (/\ runResult.op = "run"
     /\ runResult.err = Nil
     /\ runResult.runName = <<>>
     /\ runResult.used.nameKind = "string")
    => containers[runResult.containerID].Labels[LabelName] = runResult.used.name

(***************************************************************************)
(* Properties of `autobox list` (SpecList)                                 *)
(***************************************************************************)
\* C24: filterRunningSimulations returns exactly the input simulations whose
\* status is Running, in input order; so list without --all shows only the
\* Running ones and list --all shows every simulation ListSimulations gave.
C24_ListShowsRunningOrAll ==
    (cmdResult.cmd = "list" /\ cmdResult.err = Nil)
    => /\ cmdResult.listAll => cmdResult.shown = cmdInput.sims
       /\ ~cmdResult.listAll
            => /\ cmdResult.shown
                    = SelectSeq(cmdInput.sims, LAMBDA sim : sim.Status = StatusRunning)
               /\ \A i \in DOMAIN cmdResult.shown :
                      cmdResult.shown[i].Status = StatusRunning

\* Two different Running simulations around a Stopped one, listed without --all
C24_TwoRunningKeptInOrder ==
    /\ cmdResult.cmd = "list"
    /\ cmdResult.err = Nil
    /\ ~cmdResult.listAll
    /\ Len(cmdInput.sims) = 3
    /\ cmdInput.sims[2].Status = StatusStopped
    /\ Len(cmdResult.shown) = 2
    /\ cmdResult.shown[1].ID # cmdResult.shown[2].ID

(***************************************************************************)
(* Properties of truncate (SpecTruncate)                                   *)
(***************************************************************************)
\* C25: truncate(s, max) returns s unchanged when len(s) <= max and otherwise
\* the first max-3 bytes of s followed by "..."; for every s and every
\* max >= 0 it returns a string of at most max bytes and does not crash.
C25_TruncateFitsAndNeverCrashes ==
    cmdResult.cmd = "truncate"
    => /\ cmdResult.out # Panic
       /\ Len(cmdResult.out.text) <= cmdInput.max
       /\ Len(cmdInput.s) <= cmdInput.max => cmdResult.out.text = cmdInput.s
       /\ Len(cmdInput.s) > cmdInput.max
            => cmdResult.out.text
                 = SubSeq(cmdInput.s, 1, cmdInput.max - 3) \o Ellipsis

(***************************************************************************)
(* Properties of a simulation's life from launch to removal (SpecLife)     *)
(***************************************************************************)
\* The last operation was a RemoveSimulation of id that returned no error
RemoveSucceeded(id) ==
    /\ result.op = "RemoveSimulation"
    /\ result.id = id
    /\ result.err = Nil

\* C26: from a successful LaunchSimulation on, every ListSimulations that
\* succeeds returns an entry with the container's id, whatever the container's
\* state, and the container stays until a RemoveSimulation on it succeeds;
\* after that no ListSimulations returns it and GetSimulationStatus on it
\* returns an error.
C26_ListedFromLaunchUntilRemoved ==
    /\ [](\A id \in ContainerIDs :
            /\ (result.op = "ListSimulations" /\ result.err = Nil)
                 => /\ launched[id] # NotLaunched
                        => \E sim \in result.sims : sim.ContainerID = id
                    /\ containers[id] = Removed
                        => \A sim \in result.sims : sim.ContainerID # id
            /\ (/\ result.op = "GetSimulationStatus"
                /\ result.id = id
                /\ containers[id] = Removed)
                 => result.err # Nil /\ result.sim = Absent)
    /\ [][\A id \in ContainerIDs :
            /\ (Exists(containers, id) /\ ~Exists(containers', id))
                 => RemoveSucceeded(id)'
            /\ (launched[id] # NotLaunched /\ launched'[id] = NotLaunched)
                 => RemoveSucceeded(id)'
            /\ containers[id] = Removed => containers'[id] = Removed]_vars

\* C26 witness: a listing after one launched container exited and another was
\* removed: the exited one is listed, the removed one is not.
C26_ExitedListedRemovedGone ==
    /\ result.op = "ListSimulations"
    /\ result.err = Nil
    /\ \E id \in ContainerIDs :
          /\ launched[id] # NotLaunched
          /\ containers[id].State.Status = WordExited
          /\ \E sim \in result.sims : sim.ContainerID = id
    /\ \E id \in ContainerIDs :
          /\ containers[id] = Removed
          /\ \A sim \in result.sims : sim.ContainerID # id

(***************************************************************************)
(* Properties of `autobox terminate --all` (SpecTerminate)                 *)
(***************************************************************************)
\* The forced removals among the runtime calls of the last command
ForcedRemovalsOf(id) ==
    {i \in DOMAIN calls : calls[i].op = "remove" /\ calls[i].id = id /\ calls[i].force}
RemovalCalls == {i \in DOMAIN calls : calls[i].op = "remove"}

\* C27: terminate --all, once confirmed or forced, makes exactly one forced
\* RemoveSimulation for every simulation that ListSimulations returned, going
\* on after a failure; terminated + failed is the number listed, and the
\* command returns an error exactly when failed > 0.
C27_TerminateAllRemovesEachOnce ==
    (cmdResult.cmd = "terminate" /\ cmdResult.all /\ cmdResult.ended = "summary")
    => /\ \A k \in DOMAIN cmdResult.listed :
              Cardinality(ForcedRemovalsOf(cmdResult.listed[k])) = 1
       /\ Cardinality(RemovalCalls) = Len(cmdResult.listed)
       /\ cmdResult.terminated + cmdResult.failed = Len(cmdResult.listed)
       /\ (cmdResult.err # Nil) <=> (cmdResult.failed > 0)

\* C27 witness: the first listed simulation failed to be removed and a later
\* one was removed.
C27_FailedThenTerminated ==
    /\ cmdResult.cmd = "terminate"
    /\ cmdResult.all
    /\ cmdResult.ended = "summary"
    /\ Len(cmdResult.listed) = 2
    /\ Exists(containers, cmdResult.listed[1])
    /\ containers[cmdResult.listed[2]] = Removed
    /\ cmdResult.failed = 1
    /\ cmdResult.terminated = 1

(***************************************************************************)
(* Properties of the status table (SpecConvert)                            *)
(***************************************************************************)
\* C28: every Simulation that GetSimulationStatus returns with finishedAt set
\* has startedAt set, so outputStatusTable, which dereferences startedAt
\* whenever finishedAt is set, does not dereference an unset value.
C28_FinishedImpliesStarted ==
    /\ (/\ conversion.by = "GetSimulationStatus"
        /\ conversion.err = Nil
        /\ conversion.sim # Panic
        /\ conversion.sim.FinishedAt # Unset)
         => conversion.sim.StartedAt # Unset
    /\ (/\ cmdResult.cmd = "status"
        /\ conversion.by = "GetSimulationStatus"
        /\ conversion.sim # Panic
        /\ ~SlicePanics(conversion.sim.ContainerID, ShortIDLen))
         => cmdResult.out # Panic

(***************************************************************************)
(* Properties of package config (SpecConfig)                               *)
(***************************************************************************)
\* C30: config.Get returns only a Config that an Init call which returned no
\* error produced; after an Init that returned an error, a Get runs Init
\* again or panics, and never returns the Config the failed Init left.
C30_GetReturnsOnlyCompleteConfig ==
    (configResult.fn = "Get" /\ configResult.out # Panic)
    => /\ configResult.out.kind = "config"
       /\ configResult.out.init = "ok"

====
